---- MODULE Spec2Model ----
\* Region inference (librustc/middle/typeck/infer/region_inference.rs):
\* the constraint store with its undo log, the taint walker and the
\* fixed-point solver, as a state machine.
EXTENDS Integers, Sequences, FiniteSets, TLC

VARIABLES var_origins, constraints, lubs, glbs, skolemization_count,
          bound_count, undo_log, values, errors, ret, snaps, issued, committed

vars == <<var_origins, constraints, lubs, glbs, skolemization_count,
          bound_count, undo_log, values, errors, ret, snaps, issued, committed>>

\* ------------------------------------------------------------------ bounds

MaxVars == 2
MaxConstraints == 4
MaxLog == 5
MaxSnaps == 2
MaxCount == 2
MaxSolveConstraints == 3
MaxPasses == 12
MaxChain == 2

\* ----------------------------------------------------------------- regions

NoBr == <<"none", 0>>
br_anon(n) == <<"br_anon", n>>
br_fresh(n) == <<"br_fresh", n>>

re_static == [tag |-> "re_static", id |-> 0, br |-> NoBr]
re_empty == [tag |-> "re_empty", id |-> 0, br |-> NoBr]
re_scope(s) == [tag |-> "re_scope", id |-> s, br |-> NoBr]
re_free(s, b) == [tag |-> "re_free", id |-> s, br |-> b]
re_bound(b) == [tag |-> "re_bound", id |-> 0, br |-> b]
ReVar(v) == [tag |-> "ReVar", id |-> v, br |-> NoBr]
ReSkolemized(k, b) == [tag |-> "ReSkolemized", id |-> k, br |-> b]

IsVar(r) == r.tag = "ReVar"

\* ------------------------------------------------- region_maps (the oracle)

\* The scope tree handed to the solver: scope 0 stands alone, scope 1 is a
\* root with the children 2 and 3.
ScopeIds == 0..3
NoScope == -1
ScopeParent(s) == IF s >= 2 THEN s \div 2 ELSE NoScope

RECURSIVE Ancestors(_)
Ancestors(s) == IF s = NoScope THEN {} ELSE {s} \cup Ancestors(ScopeParent(s))

is_subscope_of(sub, sup) == sup \in Ancestors(sub)

\* Some(id) is the id, None is NoScope.
nearest_common_ancestor(a, b) ==
  LET common == Ancestors(a) \cap Ancestors(b)
  IN IF common = {} THEN NoScope
     ELSE CHOOSE c \in common : \A d \in common : is_subscope_of(c, d)

\* The free regions of the function being checked and the relation its
\* signature declares between them.
FreeA == re_free(1, br_anon(0))
FreeB == re_free(2, br_anon(1))
FreeRegions == {FreeA, FreeB}
FreeRegionMap == {<<FreeB, FreeA>>}

sub_free_region(a, b) == a = b \/ <<a, b>> \in FreeRegionMap

is_subregion_of(sub, sup) ==
  \/ sub = sup
  \/ sup = re_static
  \/ sub = re_empty
  \/ /\ sub.tag = "re_scope" /\ sup.tag = "re_scope"
     /\ is_subscope_of(sub.id, sup.id)
  \/ /\ sub.tag = "re_scope" /\ sup.tag = "re_free"
     /\ is_subscope_of(sub.id, sup.id)
  \/ /\ sub.tag = "re_free" /\ sup.tag = "re_free"
     /\ sub_free_region(sub, sup)

\* ------------------------------------------------------ lattice operators

\* FreeRegion's derived ordering: scope_id first, then the bound region.
BrRank(x) == CASE x[1] = "br_anon" -> 1 [] x[1] = "br_fresh" -> 3 [] OTHER -> 0
BrLess(x, y) == BrRank(x) < BrRank(y) \/ (BrRank(x) = BrRank(y) /\ x[2] < y[2])
FreeLess(a, b) == a.id < b.id \/ (a.id = b.id /\ BrLess(a.br, b.br))

Ok(r) == [ok |-> TRUE, r |-> r]
Err == [ok |-> FALSE, r |-> re_empty]

lub_free_helper(a, b) ==
  IF sub_free_region(a, b) THEN b
  ELSE IF sub_free_region(b, a) THEN a
  ELSE re_static

lub_free_regions(a, b) ==
  IF a = b THEN a
  ELSE IF FreeLess(a, b) THEN lub_free_helper(a, b)
  ELSE lub_free_helper(b, a)

\* Variant of lub_concrete_regions: in the last arm two different regions
\* give the first one.
lub_concrete_regions_last_arm_first(a, b) ==
  IF a = re_static \/ b = re_static THEN re_static
  ELSE IF a = re_empty THEN b
  ELSE IF b = re_empty THEN a
  ELSE IF a.tag = "re_free" /\ b.tag = "re_scope" THEN
    (IF nearest_common_ancestor(a.id, b.id) = a.id THEN a ELSE re_static)
  ELSE IF a.tag = "re_scope" /\ b.tag = "re_free" THEN
    (IF nearest_common_ancestor(b.id, a.id) = b.id THEN b ELSE re_static)
  ELSE IF a.tag = "re_scope" /\ b.tag = "re_scope" THEN
    (LET r_id == nearest_common_ancestor(a.id, b.id)
     IN IF r_id # NoScope THEN re_scope(r_id) ELSE re_static)
  ELSE IF a.tag = "re_free" /\ b.tag = "re_free" THEN lub_free_regions(a, b)
  ELSE a

lub_concrete_regions(a, b) ==
  IF a = re_static \/ b = re_static THEN re_static
  ELSE IF a = re_empty THEN b
  ELSE IF b = re_empty THEN a
  ELSE IF a.tag = "re_free" /\ b.tag = "re_scope" THEN
    (IF nearest_common_ancestor(a.id, b.id) = a.id THEN a ELSE re_static)
  ELSE IF a.tag = "re_scope" /\ b.tag = "re_free" THEN
    (IF nearest_common_ancestor(b.id, a.id) = b.id THEN b ELSE re_static)
  ELSE IF a.tag = "re_scope" /\ b.tag = "re_scope" THEN
    (LET r_id == nearest_common_ancestor(a.id, b.id)
     IN IF r_id # NoScope THEN re_scope(r_id) ELSE re_static)
  ELSE IF a.tag = "re_free" /\ b.tag = "re_free" THEN lub_free_regions(a, b)
  ELSE IF a = b THEN a ELSE re_static

intersect_scopes(scope_a, scope_b) ==
  LET r_id == nearest_common_ancestor(scope_a, scope_b)
  IN IF r_id # NoScope /\ scope_a = r_id THEN Ok(re_scope(scope_b))
     ELSE IF r_id # NoScope /\ scope_b = r_id THEN Ok(re_scope(scope_a))
     ELSE Err

glb_free_helper(a, b) ==
  IF sub_free_region(a, b) THEN Ok(a)
  ELSE IF sub_free_region(b, a) THEN Ok(b)
  ELSE intersect_scopes(a.id, b.id)

glb_free_regions(a, b) ==
  IF a = b THEN Ok(a)
  ELSE IF FreeLess(a, b) THEN glb_free_helper(a, b)
  ELSE glb_free_helper(b, a)

\* Variant of glb_concrete_regions: the (scope, free) arm is missing, so
\* that pair falls through to the last arm.
glb_concrete_regions_free_first(a, b) ==
  IF a = re_static THEN Ok(b)
  ELSE IF b = re_static THEN Ok(a)
  ELSE IF a = re_empty \/ b = re_empty THEN Ok(re_empty)
  ELSE IF a.tag = "re_free" /\ b.tag = "re_scope" THEN
    (IF nearest_common_ancestor(a.id, b.id) = a.id THEN Ok(b) ELSE Err)
  ELSE IF a.tag = "re_scope" /\ b.tag = "re_scope" THEN
    intersect_scopes(a.id, b.id)
  ELSE IF a.tag = "re_free" /\ b.tag = "re_free" THEN glb_free_regions(a, b)
  ELSE IF a = b THEN Ok(a) ELSE Err

glb_concrete_regions(a, b) ==
  IF a = re_static THEN Ok(b)
  ELSE IF b = re_static THEN Ok(a)
  ELSE IF a = re_empty \/ b = re_empty THEN Ok(re_empty)
  ELSE IF a.tag = "re_free" /\ b.tag = "re_scope" THEN
    (IF nearest_common_ancestor(a.id, b.id) = a.id THEN Ok(b) ELSE Err)
  ELSE IF a.tag = "re_scope" /\ b.tag = "re_free" THEN
    (IF nearest_common_ancestor(b.id, a.id) = b.id THEN Ok(a) ELSE Err)
  ELSE IF a.tag = "re_scope" /\ b.tag = "re_scope" THEN
    intersect_scopes(a.id, b.id)
  ELSE IF a.tag = "re_free" /\ b.tag = "re_free" THEN glb_free_regions(a, b)
  ELSE IF a = b THEN Ok(a) ELSE Err

\* -------------------------------------------------------- constraint store

ConstrainVarSubVar(a, b) == [kind |-> "VarSubVar", sub |-> ReVar(a), sup |-> ReVar(b)]
ConstrainRegSubVar(r, b) == [kind |-> "RegSubVar", sub |-> r, sup |-> ReVar(b)]
ConstrainVarSubReg(a, r) == [kind |-> "VarSubReg", sub |-> ReVar(a), sup |-> r]
ConstrainRegSubReg(r, s) == [kind |-> "RegSubReg", sub |-> r, sup |-> s]

TwoRegions(a, b) == [a |-> a, b |-> b]

NoConstraint == ConstrainRegSubReg(re_empty, re_empty)
NoRegions == TwoRegions(re_empty, re_empty)

Snapshot == [kind |-> "Snapshot", vid |-> 0, c |-> NoConstraint, t |-> "none", regions |-> NoRegions]
AddVar(vid) == [kind |-> "AddVar", vid |-> vid, c |-> NoConstraint, t |-> "none", regions |-> NoRegions]
AddConstraint(c) == [kind |-> "AddConstraint", vid |-> 0, c |-> c, t |-> "none", regions |-> NoRegions]
AddCombination(t, regions) == [kind |-> "AddCombination", vid |-> 0, c |-> NoConstraint, t |-> t, regions |-> regions]

\* What the last operation did: its name, the region or number it
\* returned, a second number (for the snapshot operations, what they
\* closed), the regions of a list result, and the failure that ended it.
Ret(op, r, n, m, rs, bug) ==
  [op |-> op, r |-> r, n |-> n, m |-> m, rs |-> rs, bug |-> bug]
Returned(op) == Ret(op, re_empty, 0, 0, <<>>, "none")
ReturnedRegion(op, r) == Ret(op, r, 0, 0, <<>>, "none")
ReturnedNumber(op, n) == Ret(op, re_empty, n, 0, <<>>, "none")
Failed(op, bug) == Ret(op, re_empty, 0, 0, <<>>, bug)

\* The fields of RegionVarBindings that the building operations change.
Store == [var_origins |-> var_origins, constraints |-> constraints,
          lubs |-> lubs, glbs |-> glbs, undo_log |-> undo_log]

EmptyValues == [full |-> FALSE, v |-> <<>>]

MapPut(f, k, v) == [x \in DOMAIN f \cup {k} |-> IF x = k THEN v ELSE f[x]]
MapRemove(f, k) == [x \in DOMAIN f \ {k} |-> f[x]]
EmptyMap == [x \in {} |-> 0]
PopLast(s) == SubSeq(s, 1, Len(s) - 1)

in_snapshot(st) == Len(st.undo_log) > 0

num_vars(st) == Len(st.var_origins)

new_region_var(st, origin) ==
  LET id == num_vars(st)
  IN [st EXCEPT !.var_origins = Append(@, origin),
                !.undo_log = IF in_snapshot(st) THEN Append(@, AddVar(id)) ELSE @]

\* add_constraint logging every insertion, a repeated one included.
add_constraint_logs_duplicates(st, constraint, origin) ==
  [st EXCEPT !.constraints = MapPut(@, constraint, origin),
             !.undo_log = IF in_snapshot(st)
                          THEN Append(@, AddConstraint(constraint)) ELSE @]

add_constraint(st, constraint, origin) ==
  IF constraint \notin DOMAIN st.constraints
  THEN [st EXCEPT !.constraints = MapPut(@, constraint, origin),
                  !.undo_log = IF in_snapshot(st)
                               THEN Append(@, AddConstraint(constraint)) ELSE @]
  ELSE [st EXCEPT !.constraints = MapPut(@, constraint, origin)]

\* The constraint make_subregion adds for (sub, sup), or the bug it signals.
make_subregion_case(sub, sup) ==
  IF IsVar(sub) /\ IsVar(sup) THEN [bug |-> FALSE, c |-> ConstrainVarSubVar(sub.id, sup.id)]
  ELSE IF IsVar(sup) THEN [bug |-> FALSE, c |-> ConstrainRegSubVar(sub, sup.id)]
  ELSE IF IsVar(sub) THEN [bug |-> FALSE, c |-> ConstrainVarSubReg(sub.id, sup)]
  ELSE IF sub.tag = "re_bound" \/ sup.tag = "re_bound" THEN [bug |-> TRUE, c |-> NoConstraint]
  ELSE [bug |-> FALSE, c |-> ConstrainRegSubReg(sub, sup)]

make_subregion(st, origin, sub, sup) ==
  LET m == make_subregion_case(sub, sup)
  IN IF m.bug THEN st ELSE add_constraint(st, m.c, origin)

combine_map(st, t) == IF t = "Glb" THEN st.glbs ELSE st.lubs

MiscVariable(origin) == <<"MiscVariable", origin>>

relate(st, t, origin, old_r, new_r) ==
  IF t = "Lub" THEN make_subregion(st, origin, old_r, new_r)
  ELSE make_subregion(st, origin, new_r, old_r)

\* Variant of the miss: only the first argument is related to the fresh
\* variable.
combine_vars_miss_one_side(st, t, a, b, origin) ==
  LET regions == TwoRegions(a, b)
      c == num_vars(st)
      s1 == new_region_var(st, MiscVariable(origin))
      s2 == IF t = "Glb" THEN [s1 EXCEPT !.glbs = MapPut(@, regions, c)]
            ELSE [s1 EXCEPT !.lubs = MapPut(@, regions, c)]
      s3 == IF in_snapshot(s2)
            THEN [s2 EXCEPT !.undo_log = Append(@, AddCombination(t, regions))]
            ELSE s2
      s4 == relate(s3, t, origin, a, ReVar(c))
  IN [st |-> s4, c |-> c]

\* combine_vars from the lookup's None arm on: the fresh variable, its memo
\* entry, its log entry and the two constraints that relate it.
combine_vars_miss(st, t, a, b, origin) ==
  LET regions == TwoRegions(a, b)
      c == num_vars(st)
      s1 == new_region_var(st, MiscVariable(origin))
      s2 == IF t = "Glb" THEN [s1 EXCEPT !.glbs = MapPut(@, regions, c)]
            ELSE [s1 EXCEPT !.lubs = MapPut(@, regions, c)]
      s3 == IF in_snapshot(s2)
            THEN [s2 EXCEPT !.undo_log = Append(@, AddCombination(t, regions))]
            ELSE s2
      s4 == relate(s3, t, origin, a, ReVar(c))
      s5 == relate(s4, t, origin, b, ReVar(c))
  IN [st |-> s5, c |-> c]

\* combine_vars without the memo lookup.
combine_vars_no_lookup(st, t, a, b, origin) == combine_vars_miss(st, t, a, b, origin)

\* combine_vars looking the pair up in either order.
combine_vars_unordered(st, t, a, b, origin) ==
  IF TwoRegions(a, b) \in DOMAIN combine_map(st, t)
  THEN [st |-> st, c |-> combine_map(st, t)[TwoRegions(a, b)]]
  ELSE IF TwoRegions(b, a) \in DOMAIN combine_map(st, t)
  THEN [st |-> st, c |-> combine_map(st, t)[TwoRegions(b, a)]]
  ELSE combine_vars_miss(st, t, a, b, origin)

\* The store and the variable combine_vars leaves behind.
combine_vars(st, t, a, b, origin) ==
  LET regions == TwoRegions(a, b)
  IN IF regions \in DOMAIN combine_map(st, t)
     THEN [st |-> st, c |-> combine_map(st, t)[regions]]
     ELSE combine_vars_miss(st, t, a, b, origin)

\* undo_entry with the AddCombination arms left out.
undo_entry_keeps_combination(st, undo_item) ==
  CASE undo_item.kind = "Snapshot" -> st
    [] undo_item.kind = "AddVar" -> [st EXCEPT !.var_origins = PopLast(@)]
    [] undo_item.kind = "AddConstraint" ->
         [st EXCEPT !.constraints = MapRemove(@, undo_item.c)]
    [] OTHER -> st

\* undo_entry with the AddConstraint arm left out.
undo_entry_keeps_constraint(st, undo_item) ==
  CASE undo_item.kind = "Snapshot" -> st
    [] undo_item.kind = "AddVar" -> [st EXCEPT !.var_origins = PopLast(@)]
    [] undo_item.kind = "AddConstraint" -> st
    [] undo_item.kind = "AddCombination" /\ undo_item.t = "Glb" ->
         [st EXCEPT !.glbs = MapRemove(@, undo_item.regions)]
    [] OTHER -> [st EXCEPT !.lubs = MapRemove(@, undo_item.regions)]

\* Variant of the undo step: an AddVar entry is popped and the variable is
\* kept.
undo_entry_keeps_var(st, undo_item) ==
  CASE undo_item.kind = "Snapshot" -> st
    [] undo_item.kind = "AddVar" -> st
    [] undo_item.kind = "AddConstraint" ->
         [st EXCEPT !.constraints = MapRemove(@, undo_item.c)]
    [] undo_item.kind = "AddCombination" /\ undo_item.t = "Glb" ->
         [st EXCEPT !.glbs = MapRemove(@, undo_item.regions)]
    [] OTHER -> [st EXCEPT !.lubs = MapRemove(@, undo_item.regions)]

\* One turn of rollback_to's loop: the entry popped and undone.
undo_entry(st, undo_item) ==
  CASE undo_item.kind = "Snapshot" -> st
    [] undo_item.kind = "AddVar" -> [st EXCEPT !.var_origins = PopLast(@)]
    [] undo_item.kind = "AddConstraint" ->
         [st EXCEPT !.constraints = MapRemove(@, undo_item.c)]
    [] undo_item.kind = "AddCombination" /\ undo_item.t = "Glb" ->
         [st EXCEPT !.glbs = MapRemove(@, undo_item.regions)]
    [] OTHER -> [st EXCEPT !.lubs = MapRemove(@, undo_item.regions)]

\* rollback_to stopping one entry early, so that it never pops the marker.
RECURSIVE rollback_to_stops_early(_, _)
rollback_to_stops_early(st, snapshot) ==
  IF Len(st.undo_log) <= snapshot + 1 THEN [st |-> st, failed |-> FALSE]
  ELSE LET undo_item == st.undo_log[Len(st.undo_log)]
           popped == [st EXCEPT !.undo_log = PopLast(@)]
       IN IF undo_item.kind = "AddVar" /\ Len(st.var_origins) # undo_item.vid + 1
          THEN [st |-> popped, failed |-> TRUE]
          ELSE rollback_to_stops_early(undo_entry(popped, undo_item), snapshot)

\* rollback_to's loop: the store it leaves, and whether its assertion on
\* an AddVar entry failed (the loop stops there).
RECURSIVE rollback_to(_, _)
rollback_to(st, snapshot) ==
  IF Len(st.undo_log) <= snapshot THEN [st |-> st, failed |-> FALSE]
  ELSE LET undo_item == st.undo_log[Len(st.undo_log)]
           popped == [st EXCEPT !.undo_log = PopLast(@)]
       IN IF undo_item.kind = "AddVar" /\ Len(st.var_origins) # undo_item.vid + 1
          THEN [st |-> popped, failed |-> TRUE]
          ELSE rollback_to(undo_entry(popped, undo_item), snapshot)

\* Variant of vars_created_since_snapshot: the whole log is read, whatever
\* the token.
vars_created_since_snapshot_whole_log(st, snapshot) ==
  LET idx == {i \in 1..Len(st.undo_log) : st.undo_log[i].kind = "AddVar"}
      RECURSIVE build(_)
      build(i) == IF i > Len(st.undo_log) THEN <<>>
                  ELSE IF i \in idx THEN <<st.undo_log[i].vid>> \o build(i + 1)
                  ELSE build(i + 1)
  IN build(1)

vars_created_since_snapshot(st, snapshot) ==
  LET idx == {i \in (snapshot + 1)..Len(st.undo_log) : st.undo_log[i].kind = "AddVar"}
      RECURSIVE build(_)
      build(i) == IF i > Len(st.undo_log) THEN <<>>
                  ELSE IF i \in idx THEN <<st.undo_log[i].vid>> \o build(i + 1)
                  ELSE build(i + 1)
  IN build(snapshot + 1)

\* ------------------------------------------------------------ taint walker

InSeq(s, x) == \E i \in 1..Len(s) : s[i] = x

\* consider_adding_edge never following an edge out of a variable.
consider_adding_edge_from_concrete(result_set, r, r1, r2) ==
  IF r = r1 /\ ~InSeq(result_set, r2) /\ ~IsVar(r1)
  THEN Append(result_set, r2) ELSE result_set

consider_adding_edge(result_set, r, r1, r2) ==
  IF r = r1 /\ ~InSeq(result_set, r2) THEN Append(result_set, r2) ELSE result_set

\* The inner loop of tainted: the log entries from undo_index on, for r.
RECURSIVE tainted_scan(_, _, _, _)
tainted_scan(log, result_set, r, undo_index) ==
  IF undo_index >= Len(log) THEN result_set
  ELSE LET e == log[undo_index + 1]
       IN IF e.kind = "AddConstraint"
          THEN tainted_scan(log,
                 consider_adding_edge(
                   consider_adding_edge(result_set, r, e.c.sub, e.c.sup),
                   r, e.c.sup, e.c.sub),
                 r, undo_index + 1)
          ELSE tainted_scan(log, result_set, r, undo_index + 1)

\* The outer loop of tainted: result_set is its own worklist.
RECURSIVE tainted_walk(_, _, _, _)
tainted_walk(log, snapshot, result_set, result_index) ==
  IF result_index >= Len(result_set) THEN result_set
  ELSE tainted_walk(log, snapshot,
         tainted_scan(log, result_set, result_set[result_index + 1], snapshot),
         result_index + 1)

\* Variant of tainted: the log is scanned from its first entry.
tainted_from_log_start(st, snapshot, r0) == tainted_walk(st.undo_log, 0, <<r0>>, 0)

tainted(st, snapshot, r0) == tainted_walk(st.undo_log, snapshot, <<r0>>, 0)

\* ------------------------------------------------------------------- graph

Incoming == 0
Outgoing == 1
uint_max_value == -1

NoValue == [tag |-> "NoValue", r |-> re_empty]
Value(r) == [tag |-> "Value", r |-> r]
ErrorValue == [tag |-> "ErrorValue", r |-> re_empty]

\* Variant of the node constructor: a node starts with the value Empty.
GraphNode_with_empty_value(origin) ==
  [origin |-> origin, classification |-> "Contracting", value |-> Value(re_empty),
   head_edge |-> <<uint_max_value, uint_max_value>>]

GraphNode(origin) ==
  [origin |-> origin, classification |-> "Contracting", value |-> NoValue,
   head_edge |-> <<uint_max_value, uint_max_value>>]

GraphEdge(constraint) ==
  [next_edge |-> <<uint_max_value, uint_max_value>>, constraint |-> constraint]

\* Variant of insert_edge: the edge becomes the head of the list and the
\* previous head is not linked behind it.
insert_edge_drops_previous_head(graph, node_id, edge_dir, edge_idx) ==
  [graph EXCEPT !.nodes[node_id + 1].head_edge[edge_dir + 1] = edge_idx]

insert_edge(graph, node_id, edge_dir, edge_idx) ==
  LET prev_head == graph.nodes[node_id + 1].head_edge[edge_dir + 1]
  IN [graph EXCEPT !.edges[edge_idx + 1].next_edge[edge_dir + 1] = prev_head,
                   !.nodes[node_id + 1].head_edge[edge_dir + 1] = edge_idx]

\* The loop of construct_graph that links edge edge_idx and the later ones.
RECURSIVE link_edges(_, _)
link_edges(graph, edge_idx) ==
  IF edge_idx >= Len(graph.edges) THEN graph
  ELSE LET c == graph.edges[edge_idx + 1].constraint
           g == CASE c.kind = "VarSubVar" ->
                       insert_edge(insert_edge(graph, c.sub.id, Outgoing, edge_idx),
                                   c.sup.id, Incoming, edge_idx)
                  [] c.kind = "RegSubVar" -> insert_edge(graph, c.sup.id, Incoming, edge_idx)
                  [] c.kind = "VarSubReg" -> insert_edge(graph, c.sub.id, Outgoing, edge_idx)
                  [] OTHER -> graph
       IN link_edges(g, edge_idx + 1)

\* order is the order in which the constraint map hands out its keys.
construct_graph(st, order) ==
  link_edges([nodes |-> [i \in 1..num_vars(st) |-> GraphNode(st.var_origins[i])],
              edges |-> [i \in 1..Len(order) |-> GraphEdge(order[i])]], 0)

\* The edges each_edge visits from edge_idx on, in the order it visits them.
RECURSIVE edge_list(_, _, _)
edge_list(graph, edge_idx, dir) ==
  IF edge_idx = uint_max_value THEN <<>>
  ELSE <<graph.edges[edge_idx + 1]>>
       \o edge_list(graph, graph.edges[edge_idx + 1].next_edge[dir + 1], dir)

each_edge(graph, node_idx, dir) ==
  edge_list(graph, graph.nodes[node_idx + 1].head_edge[dir + 1], dir)

\* ------------------------------------------------------------------ solver

NodeStep(node, changed, bug) == [node |-> node, changed |-> changed, bug |-> bug]

\* Variant of expand_node: a node that already has a value is reported
\* as changed whether or not the lub differs from it.
expand_node_always_changed(a_region, b_node) ==
  LET b == [b_node EXCEPT !.classification = "Expanding"]
      expand_to(lub) == NodeStep([b EXCEPT !.value = Value(lub)], TRUE, FALSE)
  IN CASE b.value.tag = "NoValue" -> NodeStep([b EXCEPT !.value = Value(a_region)], TRUE, FALSE)
       [] b.value.tag = "Value" -> expand_to(lub_concrete_regions(a_region, b.value.r))
       [] OTHER -> NodeStep(b, FALSE, FALSE)

\* Variant of expand_node: a node without a value is classified but given
\* no value.
expand_node_leaves_no_value(a_region, b_node) ==
  LET b == [b_node EXCEPT !.classification = "Expanding"]
      expand_to(lub) ==
        IF lub = b.value.r THEN NodeStep(b, FALSE, FALSE)
        ELSE NodeStep([b EXCEPT !.value = Value(lub)], TRUE, FALSE)
  IN CASE b.value.tag = "NoValue" -> NodeStep(b, FALSE, FALSE)
       [] b.value.tag = "Value" -> expand_to(lub_concrete_regions(a_region, b.value.r))
       [] OTHER -> NodeStep(b, FALSE, FALSE)

expand_node(a_region, b_node) ==
  LET b == [b_node EXCEPT !.classification = "Expanding"]
      expand_to(lub) ==
        IF lub = b.value.r THEN NodeStep(b, FALSE, FALSE)
        ELSE NodeStep([b EXCEPT !.value = Value(lub)], TRUE, FALSE)
  IN CASE b.value.tag = "NoValue" -> NodeStep([b EXCEPT !.value = Value(a_region)], TRUE, FALSE)
       [] b.value.tag = "Value" -> expand_to(lub_concrete_regions(a_region, b.value.r))
       [] OTHER -> NodeStep(b, FALSE, FALSE)

\* Variant of check_node: a node that fails the check is classified anew.
check_node_reclassifies(a_node, a_region, b_region) ==
  IF ~is_subregion_of(a_region, b_region)
  THEN NodeStep([a_node EXCEPT !.value = ErrorValue,
                               !.classification = "Contracting"], FALSE, FALSE)
  ELSE NodeStep(a_node, FALSE, FALSE)

check_node(a_node, a_region, b_region) ==
  IF ~is_subregion_of(a_region, b_region)
  THEN NodeStep([a_node EXCEPT !.value = ErrorValue], FALSE, FALSE)
  ELSE NodeStep(a_node, FALSE, FALSE)

adjust_node(a_node, a_region, b_region) ==
  LET adjust_to(glb) ==
        IF glb.ok
        THEN IF glb.r = a_region THEN NodeStep(a_node, FALSE, FALSE)
             ELSE NodeStep([a_node EXCEPT !.value = Value(glb.r)], TRUE, FALSE)
        ELSE NodeStep([a_node EXCEPT !.value = ErrorValue], FALSE, FALSE)
  IN adjust_to(glb_concrete_regions(a_region, b_region))

\* Variant of contract_node: a node with a value is adjusted whatever its
\* classification.
contract_node_adjusts_expanding(a_node, b_region) ==
  CASE a_node.value.tag = "NoValue" ->
         IF a_node.classification # "Contracting" THEN NodeStep(a_node, FALSE, TRUE)
         ELSE NodeStep([a_node EXCEPT !.value = Value(b_region)], TRUE, FALSE)
    [] a_node.value.tag = "ErrorValue" -> NodeStep(a_node, FALSE, FALSE)
    [] OTHER -> adjust_node(a_node, a_node.value.r, b_region)

contract_node(a_node, b_region) ==
  CASE a_node.value.tag = "NoValue" ->
         IF a_node.classification # "Contracting" THEN NodeStep(a_node, FALSE, TRUE)
         ELSE NodeStep([a_node EXCEPT !.value = Value(b_region)], TRUE, FALSE)
    [] a_node.value.tag = "ErrorValue" -> NodeStep(a_node, FALSE, FALSE)
    [] OTHER ->
         IF a_node.classification = "Expanding"
         THEN check_node(a_node, a_node.value.r, b_region)
         ELSE adjust_node(a_node, a_node.value.r, b_region)

\* The closure expansion hands to iterate_until_fixed_point: the nodes
\* after one edge, and whether it changed one.
\* Variant of the expansion body: variable-to-variable edges carry nothing.
expansion_no_var_edges(nodes, edge) ==
  LET c == edge.constraint
      same == [nodes |-> nodes, changed |-> FALSE, bug |-> FALSE]
      into(i, s) == [nodes |-> [nodes EXCEPT ![i] = s.node],
                     changed |-> s.changed, bug |-> s.bug]
  IN CASE c.kind = "RegSubVar" -> into(c.sup.id + 1, expand_node(c.sub, nodes[c.sup.id + 1]))
       [] OTHER -> same

expansion(nodes, edge) ==
  LET c == edge.constraint
      same == [nodes |-> nodes, changed |-> FALSE, bug |-> FALSE]
      into(i, s) == [nodes |-> [nodes EXCEPT ![i] = s.node],
                     changed |-> s.changed, bug |-> s.bug]
  IN CASE c.kind = "RegSubVar" -> into(c.sup.id + 1, expand_node(c.sub, nodes[c.sup.id + 1]))
       [] c.kind = "VarSubVar" ->
            IF nodes[c.sub.id + 1].value.tag = "Value"
            THEN into(c.sup.id + 1,
                      expand_node(nodes[c.sub.id + 1].value.r, nodes[c.sup.id + 1]))
            ELSE same
       [] OTHER -> same

contraction(nodes, edge) ==
  LET c == edge.constraint
      same == [nodes |-> nodes, changed |-> FALSE, bug |-> FALSE]
      into(i, s) == [nodes |-> [nodes EXCEPT ![i] = s.node],
                     changed |-> s.changed, bug |-> s.bug]
  IN CASE c.kind = "VarSubVar" ->
            IF nodes[c.sup.id + 1].value.tag = "Value"
            THEN into(c.sub.id + 1,
                      contract_node(nodes[c.sub.id + 1], nodes[c.sup.id + 1].value.r))
            ELSE same
       [] c.kind = "VarSubReg" -> into(c.sub.id + 1, contract_node(nodes[c.sub.id + 1], c.sup))
       [] OTHER -> same

body(tag, nodes, edge) ==
  IF tag = "Expansion" THEN expansion(nodes, edge) ELSE contraction(nodes, edge)

\* One pass of iterate_until_fixed_point over the edges from edge_idx on.
RECURSIVE fixed_point_pass(_, _, _, _, _)
fixed_point_pass(tag, nodes, edges, edge_idx, changed) ==
  LET after(s) ==
        IF s.bug THEN [nodes |-> s.nodes, changed |-> changed, bug |-> TRUE]
        ELSE fixed_point_pass(tag, s.nodes, edges, edge_idx + 1, changed \/ s.changed)
  IN IF edge_idx >= Len(edges) THEN [nodes |-> nodes, changed |-> changed, bug |-> FALSE]
     ELSE after(body(tag, nodes, edges[edge_idx + 1]))

\* iterate_until_fixed_point: passes until one changes nothing. The pass
\* count is capped at MaxPasses; stuck tells that the cap was met.
RECURSIVE iterate_until_fixed_point(_, _, _)
iterate_until_fixed_point(tag, graph, iteration) ==
  LET ended(g, bug, stuck) ==
        [graph |-> g, bug |-> bug, stuck |-> stuck, iteration |-> iteration]
      after(p, g) ==
        IF p.bug THEN ended(g, TRUE, FALSE)
        ELSE IF ~p.changed THEN ended(g, FALSE, FALSE)
        ELSE IF iteration >= MaxPasses THEN ended(g, FALSE, TRUE)
        ELSE iterate_until_fixed_point(tag, g, iteration + 1)
      pass(p) == after(p, [graph EXCEPT !.nodes = p.nodes])
  IN pass(fixed_point_pass(tag, graph.nodes, graph.edges, 0, FALSE))

\* -------------------------------------------------------- error collection

NoOrigin == "none"
NoVarOrigin == <<"none", "none">>

ConcreteFailure(origin, sub, sup) ==
  [kind |-> "ConcreteFailure", v |-> NoVarOrigin,
   o1 |-> origin, r1 |-> sub, o2 |-> NoOrigin, r2 |-> sup]
SubSupConflict(v, sub_origin, sub_r, sup_origin, sup_r) ==
  [kind |-> "SubSupConflict", v |-> v,
   o1 |-> sub_origin, r1 |-> sub_r, o2 |-> sup_origin, r2 |-> sup_r]
SupSupConflict(v, origin1, r1, origin2, r2) ==
  [kind |-> "SupSupConflict", v |-> v,
   o1 |-> origin1, r1 |-> r1, o2 |-> origin2, r2 |-> r2]

RegionAndOrigin(region, origin) == [region |-> region, origin |-> origin]

\* Variant of collect_concrete_region_errors: a region-to-region constraint
\* is reported whatever the oracle says.
RECURSIVE collect_concrete_region_errors_unfiltered(_, _, _)
collect_concrete_region_errors_unfiltered(st, edges, edge_idx) ==
  IF edge_idx >= Len(edges) THEN <<>>
  ELSE LET c == edges[edge_idx + 1].constraint
           rest == collect_concrete_region_errors_unfiltered(st, edges, edge_idx + 1)
       IN IF c.kind = "RegSubReg"
          THEN <<ConcreteFailure(st.constraints[c], c.sub, c.sup)>> \o rest
          ELSE rest

RECURSIVE collect_concrete_region_errors(_, _, _)
collect_concrete_region_errors(st, edges, edge_idx) ==
  IF edge_idx >= Len(edges) THEN <<>>
  ELSE LET c == edges[edge_idx + 1].constraint
           rest == collect_concrete_region_errors(st, edges, edge_idx + 1)
       IN IF c.kind = "RegSubReg" /\ ~is_subregion_of(c.sub, c.sup)
          THEN <<ConcreteFailure(st.constraints[c], c.sub, c.sup)>> \o rest
          ELSE rest

\* process_edges: the walk state after the edges of source_vid in
\* direction dir, taken from the list es that each_edge yields.
RECURSIVE process_edges(_, _, _, _)
process_edges(st, state, source_vid, es) ==
  IF es = <<>> THEN state
  ELSE LET c == es[1].constraint
           next ==
             CASE c.kind = "VarSubVar" ->
                    LET opp_vid == IF c.sub.id = source_vid THEN c.sup.id ELSE c.sub.id
                    IN IF opp_vid \notin state.set
                       THEN [state EXCEPT !.set = @ \cup {opp_vid},
                                          !.stack = Append(@, opp_vid)]
                       ELSE state
               [] c.kind \in {"RegSubVar", "VarSubReg"} ->
                    [state EXCEPT !.result = Append(@,
                       RegionAndOrigin(IF c.kind = "RegSubVar" THEN c.sub ELSE c.sup,
                                       st.constraints[c]))]
               [] OTHER -> state
       IN process_edges(st, next, source_vid, Tail(es))

\* Variant of the walk: a node that carries any mark, the walk's own
\* included, counts as a duplicate.
RECURSIVE walk_stack_own_mark_is_dup(_, _, _, _)
walk_stack_own_mark_is_dup(st, graph, orig_node_idx, state) ==
  IF state.stack = <<>> THEN state
  ELSE LET node_idx == state.stack[Len(state.stack)]
           classification == graph.nodes[node_idx + 1].classification
           popped == [state EXCEPT !.stack = PopLast(@)]
           marked ==
             IF popped.dup_vec[node_idx + 1] = uint_max_value
             THEN [popped EXCEPT !.dup_vec[node_idx + 1] = orig_node_idx]
             ELSE [popped EXCEPT !.dup_found = TRUE]
           dir == IF classification = "Expanding" THEN Incoming ELSE Outgoing
       IN walk_stack_own_mark_is_dup(st, graph, orig_node_idx,
                     process_edges(st, marked, node_idx, each_edge(graph, node_idx, dir)))

\* Variant of the walk: marks are written but a foreign mark is not taken
\* as a duplicate.
RECURSIVE walk_stack_no_dup(_, _, _, _)
walk_stack_no_dup(st, graph, orig_node_idx, state) ==
  IF state.stack = <<>> THEN state
  ELSE LET node_idx == state.stack[Len(state.stack)]
           classification == graph.nodes[node_idx + 1].classification
           popped == [state EXCEPT !.stack = PopLast(@)]
           marked ==
             IF popped.dup_vec[node_idx + 1] = uint_max_value
             THEN [popped EXCEPT !.dup_vec[node_idx + 1] = orig_node_idx]
             ELSE popped
           dir == IF classification = "Expanding" THEN Incoming ELSE Outgoing
       IN walk_stack_no_dup(st, graph, orig_node_idx,
                     process_edges(st, marked, node_idx, each_edge(graph, node_idx, dir)))

\* The while loop of collect_concrete_regions.
RECURSIVE walk_stack(_, _, _, _)
walk_stack(st, graph, orig_node_idx, state) ==
  IF state.stack = <<>> THEN state
  ELSE LET node_idx == state.stack[Len(state.stack)]
           classification == graph.nodes[node_idx + 1].classification
           popped == [state EXCEPT !.stack = PopLast(@)]
           marked ==
             IF popped.dup_vec[node_idx + 1] = uint_max_value
             THEN [popped EXCEPT !.dup_vec[node_idx + 1] = orig_node_idx]
             ELSE IF popped.dup_vec[node_idx + 1] # orig_node_idx
             THEN [popped EXCEPT !.dup_found = TRUE]
             ELSE popped
           dir == IF classification = "Expanding" THEN Incoming ELSE Outgoing
       IN walk_stack(st, graph, orig_node_idx,
                     process_edges(st, marked, node_idx, each_edge(graph, node_idx, dir)))

\* Variant of collect_concrete_regions: the walk starts from the
\* neighbours of the root, the root itself is not on the stack.
collect_concrete_regions_root_not_walked(st, graph, orig_node_idx, dir, dup_vec) ==
  LET state == [set |-> {orig_node_idx}, stack |-> <<>>,
                result |-> <<>>, dup_found |-> FALSE, dup_vec |-> dup_vec]
  IN walk_stack(st, graph, orig_node_idx,
                process_edges(st, state, orig_node_idx,
                              each_edge(graph, orig_node_idx, dir)))

\* result, dup_found, and dup_vec as the walk leaves it.
collect_concrete_regions(st, graph, orig_node_idx, dir, dup_vec) ==
  LET state == [set |-> {orig_node_idx}, stack |-> <<orig_node_idx>>,
                result |-> <<>>, dup_found |-> FALSE, dup_vec |-> dup_vec]
  IN walk_stack(st, graph, orig_node_idx,
                process_edges(st, state, orig_node_idx,
                              each_edge(graph, orig_node_idx, dir)))

\* The first pair the two nested loops of a collect_error_for_... meet
\* that is in conflict, as indices <<i, j>>; <<0, 0>> when there is none.
FirstPair(n, m, Conflict(_, _)) ==
  LET bad == {p \in (1..n) \X (1..m) : Conflict(p[1], p[2])}
  IN IF bad = {} THEN <<0, 0>>
     ELSE CHOOSE p \in bad : \A q \in bad : p[1] < q[1] \/ (p[1] = q[1] /\ p[2] <= q[2])

Collected(dup_vec, errs, bug) == [dup_vec |-> dup_vec, errors |-> errs, bug |-> bug]

collect_error_for_expanding_node(st, graph, dup_vec, node_idx) ==
  LET report(lower, upper, p) ==
        IF lower.dup_found \/ upper.dup_found THEN Collected(upper.dup_vec, <<>>, FALSE)
        ELSE IF p # <<0, 0>>
        THEN Collected(upper.dup_vec,
               <<SubSupConflict(st.var_origins[node_idx + 1],
                                lower.result[p[1]].origin, lower.result[p[1]].region,
                                upper.result[p[2]].origin, upper.result[p[2]].region)>>,
               FALSE)
        ELSE Collected(upper.dup_vec, <<>>, TRUE)
      compare(lower, upper) ==
        LET Conflict(i, j) ==
              ~is_subregion_of(lower.result[i].region, upper.result[j].region)
        IN report(lower, upper,
                  FirstPair(Len(lower.result), Len(upper.result), Conflict))
      walk_up(lower) ==
        compare(lower,
                collect_concrete_regions(st, graph, node_idx, Outgoing, lower.dup_vec))
  IN walk_up(collect_concrete_regions(st, graph, node_idx, Incoming, dup_vec))

collect_error_for_contracting_node(st, graph, dup_vec, node_idx) ==
  LET report(upper, p) ==
        IF upper.dup_found THEN Collected(upper.dup_vec, <<>>, FALSE)
        ELSE IF p # <<0, 0>>
        THEN Collected(upper.dup_vec,
               <<SupSupConflict(st.var_origins[node_idx + 1],
                                upper.result[p[1]].origin, upper.result[p[1]].region,
                                upper.result[p[2]].origin, upper.result[p[2]].region)>>,
               FALSE)
        ELSE Collected(upper.dup_vec, <<>>, TRUE)
      compare(upper) ==
        LET Conflict(i, j) ==
              ~glb_concrete_regions(upper.result[i].region, upper.result[j].region).ok
        IN report(upper, FirstPair(Len(upper.result), Len(upper.result), Conflict))
  IN compare(collect_concrete_regions(st, graph, node_idx, Outgoing, dup_vec))

\* The nodes from idx on, in index order: the conflicts they add.
RECURSIVE collect_conflicts(_, _, _, _)
collect_conflicts(st, graph, dup_vec, idx) ==
  IF idx >= Len(graph.nodes) THEN Collected(dup_vec, <<>>, FALSE)
  ELSE LET node == graph.nodes[idx + 1]
           joined(one, rest) ==
             Collected(rest.dup_vec, one.errors \o rest.errors, rest.bug)
           after(one) ==
             IF one.bug THEN one
             ELSE joined(one, collect_conflicts(st, graph, one.dup_vec, idx + 1))
       IN IF node.value.tag # "ErrorValue" THEN collect_conflicts(st, graph, dup_vec, idx + 1)
          ELSE IF node.classification = "Expanding"
          THEN after(collect_error_for_expanding_node(st, graph, dup_vec, idx))
          ELSE after(collect_error_for_contracting_node(st, graph, dup_vec, idx))

extract_values_and_collect_conflicts(st, graph) ==
  LET extracted(found) ==
        [values |-> [i \in 1..Len(graph.nodes) |-> graph.nodes[i].value],
         errors |-> found.errors, bug |-> found.bug]
  IN extracted(collect_conflicts(st, graph,
                                 [i \in 1..Len(graph.nodes) |-> uint_max_value], 0))

\* values and errors as resolve_regions would have them, the failure
\* ("assert", "span_bug") that stops it, and whether MaxPasses was met.
infer_variable_values(st, order) ==
  LET stopped(bug, stuck) ==
        [values |-> <<>>, errors |-> <<>>, bug |-> bug, stuck |-> stuck]
      collected(concrete, x) ==
        IF x.bug THEN stopped("span_bug", FALSE)
        ELSE [values |-> x.values, errors |-> concrete \o x.errors,
              bug |-> "none", stuck |-> FALSE]
      contracted(c) ==
        IF c.bug \/ c.stuck THEN stopped("assert", c.stuck)
        ELSE collected(collect_concrete_region_errors(st, c.graph.edges, 0),
                       extract_values_and_collect_conflicts(st, c.graph))
      expanded(e) ==
        IF e.bug \/ e.stuck THEN stopped("assert", e.stuck)
        ELSE contracted(iterate_until_fixed_point("Contraction", e.graph, 1))
  IN expanded(iterate_until_fixed_point("Expansion", construct_graph(st, order), 1))

\* Variant of resolve_var: a variable that ended in error resolves like one
\* without constraints.
resolve_var_value_error_as_empty(v) ==
  CASE v.tag = "Value" -> v.r
    [] v.tag = "NoValue" -> re_empty
    [] OTHER -> re_empty

resolve_var_value(v) ==
  CASE v.tag = "Value" -> v.r
    [] v.tag = "NoValue" -> re_empty
    [] OTHER -> re_static

RECURSIVE Perms(_)
Perms(S) == IF S = {} THEN {<<>>}
            ELSE UNION {{<<x>> \o q : q \in Perms(S \ {x})} : x \in S}

\* ----------------------------------------------------------------- actions

\* An open snapshot as the caller knows it: the token start_snapshot
\* returned and the store it promised to restore.
SnapshotRecord(st, token) ==
  [token |-> token, nvars |-> num_vars(st), constraints |-> DOMAIN st.constraints,
   lubs |-> st.lubs, glbs |-> st.glbs]

NoCommit == [done |-> FALSE, nvars |-> 0, constraints |-> {},
             lubs |-> EmptyMap, glbs |-> EmptyMap]

Alive == ret.bug = "none"

SetStore(st) ==
  /\ var_origins' = st.var_origins
  /\ constraints' = st.constraints
  /\ lubs' = st.lubs
  /\ glbs' = st.glbs
  /\ undo_log' = st.undo_log

WithinBounds(st) ==
  /\ num_vars(st) <= MaxVars
  /\ Cardinality(DOMAIN st.constraints) <= MaxConstraints
  /\ Len(st.undo_log) <= MaxLog

Init ==
  /\ var_origins = <<>>
  /\ constraints = EmptyMap
  /\ lubs = EmptyMap
  /\ glbs = EmptyMap
  /\ skolemization_count = 0
  /\ bound_count = 0
  /\ undo_log = <<>>
  /\ values = EmptyValues
  /\ errors = <<>>
  /\ ret = Returned("RegionVarBindings")
  /\ snaps = <<>>
  /\ issued = EmptyMap
  /\ committed = NoCommit

StartSnapshot ==
  /\ Alive
  /\ Len(snaps) < MaxSnaps
  /\ IF in_snapshot(Store)
     THEN /\ ret' = ReturnedNumber("start_snapshot", Len(undo_log))
          /\ snaps' = Append(snaps, SnapshotRecord(Store, Len(undo_log)))
          /\ UNCHANGED undo_log
     ELSE /\ undo_log' = Append(undo_log, Snapshot)
          /\ ret' = ReturnedNumber("start_snapshot", 0)
          /\ snaps' = Append(snaps, SnapshotRecord(Store, 0))
  /\ UNCHANGED <<var_origins, constraints, lubs, glbs, skolemization_count,
                 bound_count, values, errors, issued, committed>>

\* commit popping the log only when a single snapshot is open.
CommitOutermostOnly(remember) ==
  /\ Alive
  /\ undo_log' = IF Len(snaps) >= 2 THEN undo_log ELSE <<>>
  /\ ret' = Ret("commit", re_empty, Len(undo_log), Len(snaps), <<>>, "none")
  /\ snaps' = IF Len(snaps) >= 2 THEN PopLast(snaps) ELSE <<>>
  /\ committed' = committed
  /\ UNCHANGED <<var_origins, constraints, lubs, glbs, skolemization_count,
                 bound_count, values, errors, issued>>

\* remember names the history variables that are kept.
Commit(remember) ==
  /\ Alive
  /\ undo_log' = <<>>
  /\ ret' = Ret("commit", re_empty, Len(undo_log), Len(snaps), <<>>, "none")
  /\ snaps' = <<>>
  /\ committed' = IF "committed" \in remember
                  THEN [done |-> TRUE, nvars |-> num_vars(Store),
                        constraints |-> DOMAIN constraints, lubs |-> lubs, glbs |-> glbs]
                  ELSE committed
  /\ UNCHANGED <<var_origins, constraints, lubs, glbs, skolemization_count,
                 bound_count, values, errors, issued>>

\* Variant of rollback_to: the two name counters start again from zero.
RollbackToResetsCounters(snapshot) ==
  /\ Alive
  /\ LET r == rollback_to(Store, snapshot)
         StillOpen(s) == s.token < snapshot
     IN /\ SetStore(r.st)
        /\ ret' = IF r.failed THEN Failed("rollback_to", "assert")
                  ELSE Ret("rollback_to", re_empty,
                           Len(undo_log) - Len(r.st.undo_log),
                           Len(snaps) - Len(SelectSeq(snaps, StillOpen)), <<>>, "none")
        /\ snaps' = SelectSeq(snaps, StillOpen)
  /\ issued' = EmptyMap
  /\ skolemization_count' = 0
  /\ bound_count' = 0
  /\ UNCHANGED <<values, errors, committed>>

RollbackTo(snapshot) ==
  /\ Alive
  /\ LET r == rollback_to(Store, snapshot)
         StillOpen(s) == s.token < snapshot
     IN /\ SetStore(r.st)
        /\ ret' = IF r.failed THEN Failed("rollback_to", "assert")
                  ELSE Ret("rollback_to", re_empty,
                           Len(undo_log) - Len(r.st.undo_log),
                           Len(snaps) - Len(SelectSeq(snaps, StillOpen)), <<>>, "none")
        /\ snaps' = SelectSeq(snaps, StillOpen)
  /\ issued' = EmptyMap
  /\ UNCHANGED <<skolemization_count, bound_count, values, errors, committed>>

NewRegionVar(origin) ==
  /\ Alive
  /\ LET st == new_region_var(Store, origin)
     IN /\ WithinBounds(st)
        /\ SetStore(st)
        /\ ret' = ReturnedNumber("new_region_var", num_vars(Store))
  /\ UNCHANGED <<skolemization_count, bound_count, values, errors, snaps,
                 issued, committed>>

NewSkolemized(br) ==
  /\ Alive
  /\ skolemization_count < MaxCount
  /\ skolemization_count' = skolemization_count + 1
  /\ ret' = ReturnedRegion("new_skolemized", ReSkolemized(skolemization_count, br))
  /\ UNCHANGED <<var_origins, constraints, lubs, glbs, bound_count, undo_log,
                 values, errors, snaps, issued, committed>>

NewBound ==
  /\ Alive
  /\ bound_count < MaxCount
  /\ bound_count' = bound_count + 1
  /\ ret' = ReturnedRegion("new_bound", re_bound(br_fresh(bound_count)))
  /\ UNCHANGED <<var_origins, constraints, lubs, glbs, skolemization_count,
                 undo_log, values, errors, snaps, issued, committed>>

MakeSubregion(origin, sub, sup) ==
  /\ Alive
  /\ IF values.full
     THEN /\ ret' = Failed("make_subregion", "assert")
          /\ UNCHANGED <<var_origins, constraints, lubs, glbs, undo_log>>
     ELSE IF make_subregion_case(sub, sup).bug
     THEN /\ ret' = Failed("make_subregion", "span_bug")
          /\ UNCHANGED <<var_origins, constraints, lubs, glbs, undo_log>>
     ELSE LET st == make_subregion(Store, origin, sub, sup)
          IN /\ WithinBounds(st)
             /\ SetStore(st)
             /\ ret' = Returned("make_subregion")
  /\ UNCHANGED <<skolemization_count, bound_count, values, errors, snaps,
                 issued, committed>>

\* Variant of lub_regions/glb_regions: the Static short cut is taken before
\* the store is asked whether it is solved.
CombineRegionsStaticFirst(remember, t, op, origin, a, b) ==
  /\ Alive
  /\ IF a = re_static \/ b = re_static
     THEN /\ ret' = ReturnedRegion(op,
                      IF t = "Lub" THEN re_static
                      ELSE IF a = re_static THEN b ELSE a)
          /\ UNCHANGED <<var_origins, constraints, lubs, glbs, undo_log, issued>>
     ELSE IF values.full
     THEN /\ ret' = Failed(op, "assert")
          /\ UNCHANGED <<var_origins, constraints, lubs, glbs, undo_log, issued>>
     ELSE LET r == combine_vars(Store, t, a, b, origin)
          IN /\ WithinBounds(r.st)
             /\ SetStore(r.st)
             /\ ret' = ReturnedRegion(op, ReVar(r.c))
             /\ issued' = IF "issued" \in remember
                          THEN MapPut(issued, <<t, a, b>>,
                                      [c |-> r.c,
                                       calls |-> IF <<t, a, b>> \in DOMAIN issued
                                                 THEN 2 ELSE 1])
                          ELSE issued
  /\ UNCHANGED <<skolemization_count, bound_count, values, errors, snaps, committed>>

\* lub_regions (t = "Lub") and glb_regions (t = "Glb").
CombineRegions(remember, t, op, origin, a, b) ==
  /\ Alive
  /\ IF values.full
     THEN /\ ret' = Failed(op, "assert")
          /\ UNCHANGED <<var_origins, constraints, lubs, glbs, undo_log, issued>>
     ELSE IF a = re_static \/ b = re_static
     THEN /\ ret' = ReturnedRegion(op,
                      IF t = "Lub" THEN re_static
                      ELSE IF a = re_static THEN b ELSE a)
          /\ UNCHANGED <<var_origins, constraints, lubs, glbs, undo_log, issued>>
     ELSE LET r == combine_vars(Store, t, a, b, origin)
          IN /\ WithinBounds(r.st)
             /\ SetStore(r.st)
             /\ ret' = ReturnedRegion(op, ReVar(r.c))
             /\ issued' = IF "issued" \in remember
                          THEN MapPut(issued, <<t, a, b>>,
                                      [c |-> r.c,
                                       calls |-> IF <<t, a, b>> \in DOMAIN issued
                                                 THEN 2 ELSE 1])
                          ELSE issued
  /\ UNCHANGED <<skolemization_count, bound_count, values, errors, snaps, committed>>

LubRegions(remember, origin, a, b) ==
  CombineRegions(remember, "Lub", "lub_regions", origin, a, b)

GlbRegions(remember, origin, a, b) ==
  CombineRegions(remember, "Glb", "glb_regions", origin, a, b)

Tainted(snapshot, r0) ==
  /\ Alive
  /\ ret' = Ret("tainted", r0, snapshot, 0, tainted(Store, snapshot, r0), "none")
  /\ UNCHANGED <<var_origins, constraints, lubs, glbs, skolemization_count,
                 bound_count, undo_log, values, errors, snaps, issued, committed>>

VarsCreatedSinceSnapshot(snapshot) ==
  /\ Alive
  /\ ret' = Ret("vars_created_since_snapshot", re_empty, snapshot, 0,
                vars_created_since_snapshot(Store, snapshot), "none")
  /\ UNCHANGED <<var_origins, constraints, lubs, glbs, skolemization_count,
                 bound_count, undo_log, values, errors, snaps, issued, committed>>

\* Variant of resolve_regions: a second call puts its values in place of
\* the first ones.
ResolveRegionsReplaces ==
  /\ Alive
  /\ \E order \in Perms(DOMAIN constraints) :
       LET put_back(v) ==
             IF v.bug # "none"
             THEN /\ ret' = Failed("resolve_regions", v.bug)
                  /\ UNCHANGED <<values, errors>>
             ELSE /\ values' = [full |-> TRUE, v |-> v.values]
                  /\ errors' = v.errors
                  /\ ret' = ReturnedNumber("resolve_regions", Len(v.errors))
       IN put_back(infer_variable_values(Store, order))
  /\ UNCHANGED <<var_origins, constraints, lubs, glbs, skolemization_count,
                 bound_count, undo_log, snaps, issued, committed>>

ResolveRegions ==
  /\ Alive
  /\ \E order \in Perms(DOMAIN constraints) :
       LET put_back(v) ==
             IF v.bug # "none"
             THEN /\ ret' = Failed("resolve_regions", v.bug)
                  /\ UNCHANGED <<values, errors>>
             ELSE IF values.full
             THEN /\ ret' = Failed("resolve_regions", "put_back")
                  /\ UNCHANGED <<values, errors>>
             ELSE /\ values' = [full |-> TRUE, v |-> v.values]
                  /\ errors' = v.errors
                  /\ ret' = ReturnedNumber("resolve_regions", Len(v.errors))
       IN put_back(infer_variable_values(Store, order))
  /\ UNCHANGED <<var_origins, constraints, lubs, glbs, skolemization_count,
                 bound_count, undo_log, snaps, issued, committed>>

ResolveVar(rid) ==
  /\ Alive
  /\ rid < num_vars(Store)
  /\ ret' = IF ~values.full THEN Failed("resolve_var", "span_bug")
            ELSE IF rid >= Len(values.v) THEN Failed("resolve_var", "bounds")
            ELSE Ret("resolve_var", resolve_var_value(values.v[rid + 1]), rid, 0, <<>>, "none")
  /\ UNCHANGED <<var_origins, constraints, lubs, glbs, skolemization_count,
                 bound_count, undo_log, values, errors, snaps, issued, committed>>

\* ---------------------------------------------------------- specifications

\* Whether every variable a region pair names exists.
Exists(pair) ==
  \A i \in 1..2 : IsVar(pair[i]) => pair[i].id < Len(var_origins)

SubregionOrigins == {"o1"}
VariableOrigins == {<<"RegionVariable", "v">>}

\* The (sub, sup) pairs the type checker relates and the (a, b) pairs it
\* combines while it builds the constraints.
SubregionPairs == {<<re_scope(2), ReVar(0)>>, <<ReVar(0), ReVar(1)>>}
CombinePairs == {<<ReVar(0), re_scope(2)>>}

Building(remember, Subregions, Combines) ==
  \/ StartSnapshot
  \/ Commit(remember)
  \/ \E snapshot \in 0..MaxLog : RollbackTo(snapshot)
  \/ \E origin \in VariableOrigins : NewRegionVar(origin)
  \/ \E origin \in SubregionOrigins, p \in Subregions :
       Exists(p) /\ MakeSubregion(origin, p[1], p[2])
  \/ \E origin \in SubregionOrigins, p \in Combines :
       Exists(p) /\ LubRegions(remember, origin, p[1], p[2])
  \/ \E origin \in SubregionOrigins, p \in Combines :
       Exists(p) /\ GlbRegions(remember, origin, p[1], p[2])

\* The building phase: the store under every interleaving of its operations.
Next == Building({}, SubregionPairs, CombinePairs)

Spec == Init /\ [][Next]_vars

\* The same, with the history of the combine calls kept.
MemoSubregionPairs == {<<re_scope(2), ReVar(0)>>}
MemoCombinePairs == {<<re_scope(2), re_scope(3)>>}

NextMemo == Building({"issued"}, MemoSubregionPairs, MemoCombinePairs)

MemoSpec == Init /\ [][NextMemo]_vars

\* The same, with the store as it was at the last commit kept.
CommitSubregionPairs == {<<re_scope(2), ReVar(0)>>}
CommitCombinePairs == {<<re_scope(2), re_scope(3)>>}

NextCommit == Building({"committed"}, CommitSubregionPairs, CommitCombinePairs)

CommitSpec == Init /\ [][NextCommit]_vars

\* Combinations of one pair of scopes in both orders, under snapshots.
OrderPairs == {<<re_scope(2), re_scope(3)>>, <<re_scope(3), re_scope(2)>>}

NextOrder ==
  \/ StartSnapshot
  \/ Commit({})
  \/ \E snapshot \in 0..MaxLog : RollbackTo(snapshot)
  \/ \E origin \in VariableOrigins : NewRegionVar(origin)
  \/ \E origin \in SubregionOrigins, p \in OrderPairs :
       LubRegions({}, origin, p[1], p[2])
  \/ \E origin \in SubregionOrigins, p \in OrderPairs :
       GlbRegions({}, origin, p[1], p[2])

OrderSpec == Init /\ [][NextOrder]_vars

\* The taint walker over a log built inside snapshots.
TaintPairs == {<<re_scope(2), ReVar(0)>>, <<ReVar(0), ReVar(1)>>,
               <<re_scope(1), re_static>>}
TaintSeeds == {ReVar(0), re_static}
NextTaint ==
  \/ StartSnapshot
  \/ \E snapshot \in 0..MaxLog : RollbackTo(snapshot)
  \/ \E origin \in VariableOrigins : NewRegionVar(origin)
  \/ \E origin \in SubregionOrigins, p \in TaintPairs :
       Exists(p) /\ MakeSubregion(origin, p[1], p[2])
  \/ \E snapshot \in 0..Len(undo_log), r0 \in TaintSeeds : Tainted(snapshot, r0)
TaintSpec == Init /\ [][NextTaint]_vars

\* Constraints added outside any snapshot, then solved and read back.
SolvePairs == {<<ReVar(0), ReVar(1)>>, <<ReVar(1), ReVar(0)>>,
               <<re_scope(2), ReVar(1)>>, <<re_scope(3), ReVar(0)>>,
               <<ReVar(0), re_scope(3)>>, <<ReVar(0), re_scope(1)>>,
               <<ReVar(1), FreeA>>, <<FreeB, ReVar(1)>>,
               <<re_scope(2), re_scope(1)>>, <<re_scope(1), re_scope(2)>>}
NextSolve ==
  \/ \E origin \in VariableOrigins : NewRegionVar(origin)
  \/ \E origin \in SubregionOrigins, p \in SolvePairs :
       /\ Exists(p) /\ MakeSubregion(origin, p[1], p[2])
       /\ Cardinality(DOMAIN constraints') <= MaxSolveConstraints
  \/ ResolveRegions
  \/ \E rid \in 0..(MaxVars - 1) : ResolveVar(rid)
SolveSpec == Init /\ [][NextSolve]_vars

\* make_subregion with a bound region at one end, against every shape of
\* the other end.
BoundRegion == re_bound(br_anon(0))
OtherShapes == {ReVar(0), re_static, re_empty, re_scope(2), FreeA,
                ReSkolemized(0, br_anon(0)), BoundRegion}
BoundPairs == {<<BoundRegion, r>> : r \in OtherShapes}
                \cup {<<r, BoundRegion>> : r \in OtherShapes}
                \cup {<<re_scope(2), ReVar(0)>>, <<ReVar(0), ReVar(1)>>}

NextBound ==
  \/ \E origin \in VariableOrigins : NewRegionVar(origin)
  \/ \E br \in {br_anon(0)} : NewSkolemized(br)
  \/ NewBound
  \/ \E origin \in SubregionOrigins, p \in BoundPairs :
       Exists(p) /\ MakeSubregion(origin, p[1], p[2])

BoundSpec == Init /\ [][NextBound]_vars

\* Every operation of the store, before and after resolve_regions.
ResolvedSubregionPairs == {<<re_scope(2), ReVar(0)>>, <<ReVar(0), re_scope(3)>>,
                           <<BoundRegion, ReVar(1)>>}
ResolvedCombinePairs == {<<ReVar(0), re_scope(2)>>, <<re_static, re_scope(2)>>}

NextResolved ==
  \/ \E origin \in VariableOrigins : NewRegionVar(origin)
  \/ \E br \in {br_anon(0)} : NewSkolemized(br)
  \/ NewBound
  \/ \E origin \in SubregionOrigins, p \in ResolvedSubregionPairs :
       /\ Exists(p) /\ MakeSubregion(origin, p[1], p[2])
       /\ Cardinality(DOMAIN constraints') <= MaxSolveConstraints
  \/ \E origin \in SubregionOrigins, p \in ResolvedCombinePairs :
       /\ Exists(p) /\ LubRegions({}, origin, p[1], p[2])
       /\ Cardinality(DOMAIN constraints') <= MaxSolveConstraints
  \/ \E origin \in SubregionOrigins, p \in ResolvedCombinePairs :
       /\ Exists(p) /\ GlbRegions({}, origin, p[1], p[2])
       /\ Cardinality(DOMAIN constraints') <= MaxSolveConstraints
  \/ ResolveRegions
  \/ \E rid \in 0..(MaxVars - 1) : ResolveVar(rid)

ResolvedSpec == Init /\ [][NextResolved]_vars

\* Building a constraint set from the given pairs, solving it, reading the
\* answers.
Solving(Subregions) ==
  \/ \E origin \in VariableOrigins : NewRegionVar(origin)
  \/ \E origin \in SubregionOrigins, p \in Subregions :
       Exists(p) /\ MakeSubregion(origin, p[1], p[2])
  \/ ResolveRegions
  \/ \E rid \in 0..(MaxVars - 1) : ResolveVar(rid)

\* A variable below a variable that has two disjoint upper bounds.
ScanPairs == {<<ReVar(0), ReVar(1)>>, <<ReVar(1), re_scope(2)>>,
              <<ReVar(1), re_scope(3)>>, <<re_scope(2), ReVar(0)>>}

NextScan == Solving(ScanPairs)

ScanSpec == Init /\ [][NextScan]_vars

\* The lattice operators applied to a pair of concrete regions. ret.rs
\* holds the pair; for glb, ret.m is 1 for Ok(ret.r) and 0 for Err.
LatticeRegions ==
  {re_static, re_empty} \cup {re_scope(s) : s \in ScopeIds} \cup FreeRegions
    \cup {re_free(1, br_anon(1)), re_free(3, br_anon(2)),
          ReSkolemized(0, br_anon(0)), ReSkolemized(1, br_anon(0)),
          re_bound(br_anon(0)), re_bound(br_fresh(0))}

InitLattice ==
  /\ var_origins = <<>>
  /\ constraints = EmptyMap
  /\ lubs = EmptyMap
  /\ glbs = EmptyMap
  /\ skolemization_count = 0
  /\ bound_count = 0
  /\ undo_log = <<>>
  /\ values = EmptyValues
  /\ errors = <<>>
  /\ \E a \in LatticeRegions, b \in LatticeRegions :
       ret = Ret("RegionVarBindings", re_empty, 0, 0, <<a, b>>, "none")
  /\ snaps = <<>>
  /\ issued = EmptyMap
  /\ committed = NoCommit

LubConcreteRegions ==
  /\ ret.op = "RegionVarBindings"
  /\ ret' = Ret("lub_concrete_regions",
                lub_concrete_regions(ret.rs[1], ret.rs[2]), 0, 0, ret.rs, "none")
  /\ UNCHANGED <<var_origins, constraints, lubs, glbs, skolemization_count,
                 bound_count, undo_log, values, errors, snaps, issued, committed>>

GlbConcreteRegions ==
  /\ ret.op = "RegionVarBindings"
  /\ LET answer(g) == Ret("glb_concrete_regions", g.r, 0,
                          IF g.ok THEN 1 ELSE 0, ret.rs, "none")
     IN ret' = answer(glb_concrete_regions(ret.rs[1], ret.rs[2]))
  /\ UNCHANGED <<var_origins, constraints, lubs, glbs, skolemization_count,
                 bound_count, undo_log, values, errors, snaps, issued, committed>>

NextLattice == LubConcreteRegions \/ GlbConcreteRegions

LatticeSpec == InitLattice /\ [][NextLattice]_vars

\* Conflicts: two variables, each with its own origin, that can end in
\* error together or apart.
VariableSpans == <<"v0", "v1", "v2", "v3">>
ConflictPairs == {<<re_scope(2), ReVar(0)>>, <<ReVar(0), ReVar(1)>>,
                  <<ReVar(0), re_scope(3)>>, <<ReVar(1), re_scope(3)>>,
                  <<ReVar(1), re_scope(2)>>}

NextConflict ==
  \/ /\ Len(var_origins) < Len(VariableSpans)
     /\ NewRegionVar(<<"RegionVariable", VariableSpans[Len(var_origins) + 1]>>)
  \/ \E origin \in SubregionOrigins, p \in ConflictPairs :
       Exists(p) /\ MakeSubregion(origin, p[1], p[2])
  \/ ResolveRegions

ConflictSpec == Init /\ [][NextConflict]_vars

\* A chain: r <= $0 <= $1 <= ... <= $n and nothing else, as the store holds
\* it after n + 1 new_region_var calls and n + 1 make_subregion calls.
ChainRegions ==
  {re_static, re_empty} \cup {re_scope(s) : s \in ScopeIds} \cup FreeRegions
    \cup {BoundRegion, ReSkolemized(0, br_anon(0))}

ChainConstraints(r, n) ==
  {ConstrainRegSubVar(r, 0)} \cup {ConstrainVarSubVar(i - 1, i) : i \in 1..n}

InitChain ==
  /\ \E r \in ChainRegions, n \in 0..MaxChain :
       /\ var_origins = [i \in 1..(n + 1) |-> <<"RegionVariable", "v">>]
       /\ constraints = [c \in ChainConstraints(r, n) |-> "o1"]
  /\ lubs = EmptyMap
  /\ glbs = EmptyMap
  /\ skolemization_count = 0
  /\ bound_count = 0
  /\ undo_log = <<>>
  /\ values = EmptyValues
  /\ errors = <<>>
  /\ ret = Returned("make_subregion")
  /\ snaps = <<>>
  /\ issued = EmptyMap
  /\ committed = NoCommit

NextChain ==
  \/ ResolveRegions
  \/ \E rid \in 0..MaxChain : ResolveVar(rid)

ChainSpec == InitChain /\ [][NextChain]_vars

\* One variable with concrete lower and upper bounds, next to a variable
\* that occurs in no constraint.
BoundsPairs == {<<re_scope(2), ReVar(0)>>, <<re_scope(3), ReVar(0)>>,
                <<ReVar(0), re_scope(2)>>, <<ReVar(0), re_scope(3)>>,
                <<ReVar(0), re_scope(1)>>, <<ReVar(0), re_empty>>}

NextBounds ==
  \/ /\ Len(var_origins) < Len(VariableSpans)
     /\ NewRegionVar(<<"RegionVariable", VariableSpans[Len(var_origins) + 1]>>)
  \/ \E origin \in SubregionOrigins, p \in BoundsPairs :
       Exists(p) /\ MakeSubregion(origin, p[1], p[2])
  \/ ResolveRegions
  \/ \E rid \in 0..(MaxVars - 1) : ResolveVar(rid)

BoundsSpec == Init /\ [][NextBounds]_vars

\* The whole life of a store: built under snapshots, solved, read.
NextSession ==
  \/ StartSnapshot
  \/ Commit({})
  \/ \E snapshot \in 0..MaxLog : RollbackTo(snapshot)
  \/ \E origin \in VariableOrigins : NewRegionVar(origin)
  \/ \E origin \in SubregionOrigins, p \in ResolvedCombinePairs :
       Exists(p) /\ LubRegions({}, origin, p[1], p[2])
  \/ \E origin \in SubregionOrigins, p \in ResolvedCombinePairs :
       Exists(p) /\ GlbRegions({}, origin, p[1], p[2])
  \/ ResolveRegions
  \/ \E rid \in 0..(MaxVars - 1) : ResolveVar(rid)

SessionSpec == Init /\ [][NextSession]_vars

\* Fresh names handed out inside and outside snapshots.
NextFresh ==
  \/ StartSnapshot
  \/ Commit({})
  \/ \E snapshot \in 0..MaxLog : RollbackTo(snapshot)
  \/ \E origin \in VariableOrigins : NewRegionVar(origin)
  \/ \E br \in {br_anon(0)} : NewSkolemized(br)
  \/ NewBound

FreshSpec == Init /\ [][NextFresh]_vars

\* Lower and upper bounds on one variable, free regions of two scopes among
\* them, and a variable above it.
FreeC == re_free(1, br_anon(1))
LeastPairs == {<<FreeA, ReVar(0)>>, <<FreeB, ReVar(0)>>,
               <<re_scope(3), ReVar(0)>>, <<ReVar(0), ReVar(1)>>,
               <<ReVar(0), FreeA>>, <<ReVar(0), FreeC>>, <<ReVar(0), FreeB>>}

NextLeast == Solving(LeastPairs)

LeastSpec == Init /\ [][NextLeast]_vars

\* The same constraint added under two origins, inside and outside
\* snapshots, then solved.
ConstraintOrigins == {"o1", "o2"}
OriginPairs == {<<re_scope(1), re_scope(2)>>, <<re_scope(2), ReVar(0)>>}

NextOrigin ==
  \/ StartSnapshot
  \/ \E snapshot \in 0..MaxLog : RollbackTo(snapshot)
  \/ \E origin \in VariableOrigins : NewRegionVar(origin)
  \/ \E origin \in ConstraintOrigins, p \in OriginPairs :
       Exists(p) /\ MakeSubregion(origin, p[1], p[2])
  \/ ResolveRegions

OriginSpec == Init /\ [][NextOrigin]_vars

\* Variables created by new_region_var and by lub_regions under nested
\* snapshots, and the list of the variables created since a snapshot.
CreatedPairs == {<<re_scope(2), re_scope(3)>>}

NextCreated ==
  \/ StartSnapshot
  \/ Commit({})
  \/ \E snapshot \in 0..MaxLog : RollbackTo(snapshot)
  \/ \E origin \in VariableOrigins : NewRegionVar(origin)
  \/ \E origin \in SubregionOrigins, p \in CreatedPairs :
       LubRegions({}, origin, p[1], p[2])
  \/ \E origin \in SubregionOrigins, p \in CreatedPairs :
       GlbRegions({}, origin, p[1], p[2])
  \/ \E snapshot \in 0..MaxLog : VarsCreatedSinceSnapshot(snapshot)

CreatedSpec == Init /\ [][NextCreated]_vars

\* Constraints of all four kinds, an edge from a variable to itself among
\* them, and several edges on one list.
GraphPairs == {<<ReVar(0), ReVar(0)>>, <<ReVar(0), ReVar(1)>>,
               <<ReVar(1), ReVar(0)>>, <<re_scope(2), ReVar(0)>>,
               <<ReVar(0), re_scope(1)>>, <<re_scope(2), re_scope(1)>>}

NextGraph == Solving(GraphPairs)

GraphSpec == Init /\ [][NextGraph]_vars

\* ------------------------------------------------------------------ claims

StoreNext == [var_origins |-> var_origins', constraints |-> constraints',
              lubs |-> lubs', glbs |-> glbs', undo_log |-> undo_log']

\* Whether the store st holds what the snapshot record s saved.
Restored(st, s) ==
  /\ num_vars(st) = s.nvars
  /\ DOMAIN st.constraints = s.constraints
  /\ st.lubs = s.lubs
  /\ st.glbs = s.glbs

\* The variable ids a region, a constraint and a memo table mention.
RegionVars(r) == IF IsVar(r) THEN {r.id} ELSE {}
ConstraintVars(c) == RegionVars(c.sub) \cup RegionVars(c.sup)
MemoVars(m) ==
  UNION {RegionVars(k.a) \cup RegionVars(k.b) \cup {m[k]} : k \in DOMAIN m}

\* C1: rollback_to(d), with d the token of a snapshot that is still open
\* (no commit and no rollback to it or below it since start_snapshot
\* returned d), leaves the number of variables, the constraint set and
\* both memo tables as they were when start_snapshot was called.
C1_RollbackRestoresSnapshot ==
  [][\A snapshot \in 0..MaxLog :
       (ret'.op = "rollback_to" /\ RollbackTo(snapshot)) =>
         \A i \in 1..Len(snaps) :
           snaps[i].token = snapshot => Restored(StoreNext, snaps[i])]_vars

\* A rollback that closed a snapshot in which a combination was made
\* (the marker, the variable, the memo entry and two constraints popped).
C1_Witness ==
  /\ ret.op = "rollback_to" /\ ret.m >= 1 /\ ret.n = 5
  /\ lubs = EmptyMap /\ glbs = EmptyMap

C9_NoDanglingVariable ==
  \A v \in UNION {ConstraintVars(c) : c \in DOMAIN constraints}
             \cup MemoVars(lubs) \cup MemoVars(glbs) :
    v < num_vars(Store)

\* A rollback that popped a variable and left a constraint on another.
C9_Witness ==
  /\ ret.op = "rollback_to" /\ ret.n >= 2
  /\ num_vars(Store) = 1
  /\ \E c \in DOMAIN constraints : ConstraintVars(c) = {0}

CombineOps == {<<"Lub", "lub_regions">>, <<"Glb", "glb_regions">>}

\* C4: a combine_vars(kind, a, b) call made after an earlier call with the
\* same kind and the same regions in the same order, with no rollback in
\* between, returns the variable the first call returned and leaves the
\* variable count, the constraint set and the undo log as they were.
C4_SecondCombineIsHit ==
  [][\A k \in CombineOps, p \in MemoCombinePairs, origin \in SubregionOrigins :
       (/\ ret'.op = k[2]
        /\ <<k[1], p[1], p[2]>> \in DOMAIN issued
        /\ CombineRegions({"issued"}, k[1], k[2], origin, p[1], p[2]))
       => /\ ret'.r = ReVar(issued[<<k[1], p[1], p[2]>>].c)
          /\ num_vars(StoreNext) = num_vars(Store)
          /\ DOMAIN constraints' = DOMAIN constraints
          /\ undo_log' = undo_log]_vars

\* A second call of the same combination has returned, inside a snapshot.
C4_Witness ==
  /\ ret.op \in {"lub_regions", "glb_regions"}
  /\ undo_log # <<>>
  /\ \E key \in DOMAIN issued :
       /\ issued[key].calls = 2
       /\ ret.r = ReVar(issued[key].c)
       /\ key[1] = (IF ret.op = "lub_regions" THEN "Lub" ELSE "Glb")

C6_InnerCommitKeepsLog ==
  [][(Len(snaps) >= 2 /\ Commit({"committed"}))
       => /\ undo_log' # <<>>
          /\ Restored(rollback_to(StoreNext, snaps[1].token).st, snaps[1])]_vars

\* C6, amended: commit pops the whole undo log however many snapshots are
\* open, so it ends all of them; variables, constraints and memo entries
\* stay, and a rollback_to issued next, with any token, undoes nothing.
C6_CommitEndsAllSnapshots ==
  [][(Len(snaps) >= 2 /\ Commit({"committed"}))
       => /\ undo_log' = <<>>
          /\ ~in_snapshot(StoreNext)
          /\ <<var_origins', constraints', lubs', glbs'>>
               = <<var_origins, constraints, lubs, glbs>>
          /\ \A snapshot \in 0..MaxLog :
               rollback_to(StoreNext, snapshot).st = StoreNext]_vars

\* A commit with two snapshots open and entries logged since the outer one.
C6_Witness ==
  /\ ret.op = "commit" /\ ret.m >= 2 /\ ret.n >= 3
  /\ num_vars(Store) >= 1 /\ constraints # EmptyMap

\* C7: right after commit the undo log is empty, and whatever rollback_to
\* calls follow, the variables, constraints and memo entries that existed
\* at the latest commit are still there.
C7_CommitIrreversible ==
  /\ ret.op = "commit" => undo_log = <<>>
  /\ committed.done =>
       /\ committed.nvars <= num_vars(Store)
       /\ committed.constraints \subseteq DOMAIN constraints
       /\ \A key \in DOMAIN committed.lubs :
            key \in DOMAIN lubs /\ lubs[key] = committed.lubs[key]
       /\ \A key \in DOMAIN committed.glbs :
            key \in DOMAIN glbs /\ glbs[key] = committed.glbs[key]

\* A rollback_to after a commit popped entries and left what was committed.
C7_Witness ==
  /\ committed.done /\ committed.nvars >= 1 /\ committed.constraints # {}
  /\ committed.lubs # EmptyMap
  /\ ret.op = "rollback_to" /\ ret.n >= 2

\* The regions a variable can be assigned.
ConcreteRegions ==
  {re_static, re_empty} \cup {re_scope(s) : s \in ScopeIds} \cup FreeRegions

\* A region with its variables replaced by what resolve_var returns.
Resolved(r) == IF IsVar(r) THEN resolve_var_value(values.v[r.id + 1]) ELSE r

EndedInError(r) == IsVar(r) /\ values.v[r.id + 1] = ErrorValue

\* C2: after resolve_regions, every stored constraint that involves a
\* variable, none of its variables having ended in ErrorValue, holds once
\* each variable is replaced by resolve_var of it.
C2_SolverSound ==
  (values.full /\ ret.bug = "none") =>
    \A c \in DOMAIN constraints :
      (c.kind # "RegSubReg" /\ ~EndedInError(c.sub) /\ ~EndedInError(c.sup))
        => is_subregion_of(Resolved(c.sub), Resolved(c.sup))

\* Whether some assignment of concrete regions satisfies every constraint.
Satisfiable ==
  \E assignment \in [0..(num_vars(Store) - 1) -> ConcreteRegions] :
    \A c \in DOMAIN constraints :
      is_subregion_of(IF IsVar(c.sub) THEN assignment[c.sub.id] ELSE c.sub,
                      IF IsVar(c.sup) THEN assignment[c.sup.id] ELSE c.sup)

\* C3: when some assignment of concrete regions to the variables makes
\* every stored constraint hold, resolve_regions returns no error.
C3_NoSpuriousError ==
  (ret.op = "resolve_regions" /\ ret.bug = "none" /\ Satisfiable)
    => errors = <<>>

\* C10: tainted(s, r0) contains r0 (first), and for every AddConstraint
\* entry at undo-log index >= s, either both regions of the constraint are
\* in the result or neither is.
C10_TaintInclusion ==
  ret.op = "tainted" =>
    LET T == {ret.rs[i] : i \in 1..Len(ret.rs)}
    IN /\ Len(ret.rs) >= 1 /\ ret.rs[1] = ret.r
       /\ \A i \in (ret.n + 1)..Len(undo_log) :
            undo_log[i].kind = "AddConstraint" =>
              (undo_log[i].c.sub \in T <=> undo_log[i].c.sup \in T)

\* tainted followed a chain of two constraints from a snapshot taken
\* after an earlier entry, one constraint below the token left out.
C10_Witness ==
  /\ ret.op = "tainted" /\ ret.n >= 2 /\ Len(ret.rs) >= 3
  /\ \E i \in 1..ret.n : undo_log[i].kind = "AddConstraint"

\* C11 (as stated): a make_subregion call with a bound region as sub or as
\* sup signals a compiler bug and adds no constraint, whatever the other
\* end is.  The variable arms of the match come first, so a bound region
\* against a variable is recorded as a constraint.
C11_BoundIsBug ==
  [][\A origin \in SubregionOrigins, p \in BoundPairs :
       (/\ ret'.op = "make_subregion"
        /\ BoundRegion \in {p[1], p[2]}
        /\ Exists(p)
        /\ MakeSubregion(origin, p[1], p[2]))
       => (ret'.bug = "span_bug" /\ constraints' = constraints)]_vars

\* C12: once resolve_regions has run, every make_subregion, lub_regions
\* and glb_regions call fails the "not yet solved" assertion and leaves the
\* variables, the constraints, both memo tables, the undo log and the
\* computed values as they were.
C12_NoConstraintAfterResolve ==
  [][(values.full /\ ret'.op \in {"make_subregion", "lub_regions", "glb_regions"})
       => (/\ ret'.bug = "assert"
           /\ UNCHANGED <<var_origins, constraints, lubs, glbs, undo_log,
                          values, errors>>)]_vars

\* C12 witness: after resolve_regions, a lub_regions call with a Static
\* argument has failed the assertion.
C12_Witness ==
  /\ values.full
  /\ ret.op = "lub_regions"
  /\ ret.bug = "assert"
  /\ Len(var_origins) > 0
  /\ DOMAIN constraints # {}

\* C13 (as stated): after resolve_regions, new_region_var, new_skolemized
\* and new_bound each fail the "not yet solved" assertion and create no
\* variable and no fresh name.  None of the three looks at the values.
C13_NoNewNameAfterResolve ==
  [][(values.full /\ ret'.op \in {"new_region_var", "new_skolemized", "new_bound"})
       => (/\ ret'.bug = "assert"
           /\ UNCHANGED <<var_origins, skolemization_count, bound_count>>)]_vars

\* The regions the callers handed to the store as constraint ends.
ConstraintRegions == {c.sub : c \in DOMAIN constraints}
                       \cup {c.sup : c \in DOMAIN constraints}

\* C14: after resolve_regions, resolve_var(v) is r when the value of v is
\* Value(r), Empty when it is NoValue and Static when it is ErrorValue; the
\* result is never a variable, and it is a bound region only when a caller
\* gave that bound region as a constraint end.
C14_ResolveVarByValue ==
  (values.full /\ ret.op = "resolve_var" /\ ret.bug = "none")
    => LET v == values.v[ret.n + 1]
       IN /\ v.tag = "Value" => ret.r = v.r
          /\ v = NoValue => ret.r = re_empty
          /\ v = ErrorValue => ret.r = re_static
          /\ ~IsVar(ret.r)
          /\ ret.r.tag = "re_bound" => ret.r \in ConstraintRegions

\* C14 witness: resolve_var has answered Static for a variable in error
\* while the other variable holds a value.
C14_Witness ==
  /\ values.full
  /\ ret.op = "resolve_var"
  /\ ret.bug = "none"
  /\ values.v[ret.n + 1] = ErrorValue
  /\ ret.r = re_static
  /\ \E i \in 1..Len(values.v) : values.v[i].tag = "Value"

\* What resolve_var answers for each variable when the constraints are
\* met in the given order; a run that ends in a compiler bug answers nothing.
ResolvedBy(order) ==
  LET answers(v) ==
        IF v.bug # "none" THEN [bug |-> TRUE, r |-> <<>>]
        ELSE [bug |-> FALSE,
              r |-> [i \in 1..Len(v.values) |-> resolve_var_value(v.values[i])]]
  IN answers(infer_variable_values(Store, order))

\* C15 (as stated): for a fixed set of variables and constraints, what
\* resolve_var answers for every variable is the same for every order in
\* which the constraints are met by the graph construction and the passes.
C15_OrderIndependent ==
  ~values.full
    => Cardinality({a \in {ResolvedBy(order) : order \in Perms(DOMAIN constraints)} :
                      ~a.bug}) <= 1

\* C16: for all concrete regions a and b, lub_concrete_regions(a, b) is
\* lub_concrete_regions(b, a), and glb_concrete_regions(a, b) and
\* glb_concrete_regions(b, a) both fail or both succeed with one region.
C16_LatticeSymmetric ==
  /\ ret.op = "lub_concrete_regions"
       => ret.r = lub_concrete_regions(ret.rs[2], ret.rs[1])
  /\ ret.op = "glb_concrete_regions"
       => LET g == glb_concrete_regions(ret.rs[2], ret.rs[1])
          IN /\ g.ok = (ret.m = 1)
             /\ g.ok => g.r = ret.r

\* C16 witness: the glb of a scope and a free region, in that order, is the
\* scope.
C16_Witness ==
  /\ ret.op = "glb_concrete_regions"
  /\ ret.rs[1].tag = "re_scope"
  /\ ret.rs[2].tag = "re_free"
  /\ ret.m = 1
  /\ ret.r = ret.rs[1]

\* The passes the expansion loop takes over the constraints in the given
\* order.
ExpansionPasses(order) ==
  iterate_until_fixed_point("Expansion", construct_graph(Store, order), 1).iteration

\* C17: for every constraint set and every scan order, the expansion loop
\* and then the contraction loop reach a pass that changes nothing, cycles
\* of variable-to-variable constraints included: no loop is still changing
\* values at pass MaxPasses.
C17_LoopsReachFixedPoint ==
  ~values.full
    => \A order \in Perms(DOMAIN constraints) :
         ~infer_variable_values(Store, order).stuck

\* C17 witness: resolve_regions has returned for a cycle $0 <= $1 <= $0
\* with a lower bound on it, after an expansion of three passes.
C17_Witness ==
  /\ values.full
  /\ ret.op = "resolve_regions"
  /\ {ConstrainVarSubVar(0, 1), ConstrainVarSubVar(1, 0)} \subseteq DOMAIN constraints
  /\ \E c \in DOMAIN constraints : c.kind = "RegSubVar"
  /\ \E order \in Perms(DOMAIN constraints) : ExpansionPasses(order) >= 3

\* The variables joined to those of S by one variable-to-variable
\* constraint, in either direction, and the connected component of S.
Linked(S) ==
  S \cup {c.sup.id : c \in {d \in DOMAIN constraints :
                              d.kind = "VarSubVar" /\ d.sub.id \in S}}
    \cup {c.sub.id : c \in {d \in DOMAIN constraints :
                              d.kind = "VarSubVar" /\ d.sup.id \in S}}

RECURSIVE Component(_)
Component(S) == IF Linked(S) = S THEN S ELSE Component(Linked(S))

Conflicts == {"SubSupConflict", "SupSupConflict"}

SolvedGraph(order) ==
  LET contracted(e) == iterate_until_fixed_point("Contraction", e.graph, 1).graph
  IN contracted(iterate_until_fixed_point("Expansion", construct_graph(Store, order), 1))

\* The walk of the error node idx: the nodes it visits, and whether one of
\* them carried the mark of another root when the walk began.
WalkOf(graph, dup_vec, idx) ==
  LET walk(S) == [root |-> idx, visited |-> S,
                  foreign |-> \E n \in S : dup_vec[n + 1] \notin {uint_max_value, idx}]
      up(lower) ==
        walk(lower.set \cup
             collect_concrete_regions(Store, graph, idx, Outgoing, lower.dup_vec).set)
  IN IF graph.nodes[idx + 1].classification = "Expanding"
     THEN up(collect_concrete_regions(Store, graph, idx, Incoming, dup_vec))
     ELSE walk(collect_concrete_regions(Store, graph, idx, Outgoing, dup_vec).set)

\* The walks of the error nodes from idx on, each with whether it ended in
\* a conflict record.
RECURSIVE Walks(_, _, _)
Walks(graph, dup_vec, idx) ==
  IF idx >= Len(graph.nodes) THEN {}
  ELSE LET this(w, one) ==
             {[root |-> w.root, visited |-> w.visited, foreign |-> w.foreign,
               reported |-> one.errors # <<>>]}
               \cup (IF one.bug THEN {} ELSE Walks(graph, one.dup_vec, idx + 1))
       IN IF graph.nodes[idx + 1].value.tag # "ErrorValue"
          THEN Walks(graph, dup_vec, idx + 1)
          ELSE IF graph.nodes[idx + 1].classification = "Expanding"
          THEN this(WalkOf(graph, dup_vec, idx),
                    collect_error_for_expanding_node(Store, graph, dup_vec, idx))
          ELSE this(WalkOf(graph, dup_vec, idx),
                    collect_error_for_contracting_node(Store, graph, dup_vec, idx))

AllWalks(order) ==
  LET from(graph) ==
        Walks(graph, [i \in 1..Len(graph.nodes) |-> uint_max_value], 0)
  IN from(SolvedGraph(order))

ConflictCount(errs) ==
  Cardinality({i \in 1..Len(errs) : errs[i].kind \in Conflicts})

\* C19: in one resolve_regions call, an error node whose walk reaches a
\* node that carries the mark of another root adds no conflict record, the
\* records returned are one per reporting walk, and no two reporting walks
\* visited a common node.
C19_NoOverlappingReports ==
  ~values.full
    => \A order \in Perms(DOMAIN constraints) :
         LET disjoint(W, v) ==
               /\ \A w \in W : w.foreign => ~w.reported
               /\ v.bug = "none"
                    => ConflictCount(v.errors) = Cardinality({w \in W : w.reported})
               /\ \A w1 \in W, w2 \in W :
                    (w1.root # w2.root /\ w1.reported /\ w2.reported)
                      => w1.visited \cap w2.visited = {}
         IN disjoint(AllWalks(order), infer_variable_values(Store, order))

\* C19 witness: resolve_regions has returned fewer conflicts than there
\* are error variables, because a walk met the mark of an earlier root.
C19_Witness ==
  /\ values.full
  /\ ret.op = "resolve_regions"
  /\ ConflictCount(errors) < Cardinality({i \in 1..Len(values.v) : values.v[i] = ErrorValue})
  /\ \E order \in Perms(DOMAIN constraints) :
       \E w \in AllWalks(order) : w.foreign /\ ~w.reported

\* The region at the foot of the chain.
ChainFoot == (CHOOSE c \in DOMAIN constraints : c.kind = "RegSubVar").sub

\* C20: when the only constraints are r <= $0 and the chain $0 <= $1 <=
\* ... <= $n, resolve_regions returns normally with an empty error list,
\* every variable has the value r, and resolve_var answers r for each.
C20_ChainResolvesToFoot ==
  /\ ret.op = "resolve_regions" => (values.full /\ ret.bug \in {"none", "put_back"})
  /\ values.full
       => /\ errors = <<>>
          /\ values.v = [i \in 1..Len(var_origins) |-> Value(ChainFoot)]
  /\ (ret.op = "resolve_var" /\ ret.bug = "none") => ret.r = ChainFoot

\* C20 witness: the last variable of the longest chain has resolved to the
\* scope at its foot.
C20_Witness ==
  /\ values.full
  /\ Len(var_origins) = MaxChain + 1
  /\ ret.op = "resolve_var"
  /\ ret.n = MaxChain
  /\ ret.r = re_scope(2)
  /\ ChainFoot = re_scope(2)

\* The concrete bounds the constraints put on variable v, and whether v
\* has no other constraint.
LowerBounds(v) ==
  {c.sub : c \in {d \in DOMAIN constraints : d.kind = "RegSubVar" /\ d.sup.id = v}}
UpperBounds(v) ==
  {c.sup : c \in {d \in DOMAIN constraints : d.kind = "VarSubReg" /\ d.sub.id = v}}
OnlyConcreteBounds(v) ==
  \A c \in DOMAIN constraints : c.kind = "VarSubVar" => v \notin {c.sub.id, c.sup.id}
ErrorsFor(v) == {i \in 1..Len(errors) : errors[i].v = var_origins[v + 1]}

\* C21 (as stated): a variable with only concrete bounds, a lower bound l
\* and an upper bound u with l not below u, gets exactly one error, a
\* SubSupConflict whose sub is one of its lower bounds and whose sup is one
\* of its upper bounds, sub not below sup.
C21_SubSupNamesLowerAndUpper ==
  values.full
    => \A v \in 0..(Len(values.v) - 1) :
         (/\ OnlyConcreteBounds(v)
          /\ \E l \in LowerBounds(v), u \in UpperBounds(v) : ~is_subregion_of(l, u))
           => /\ Cardinality(ErrorsFor(v)) = 1
              /\ \A i \in ErrorsFor(v) :
                   /\ errors[i].kind = "SubSupConflict"
                   /\ errors[i].r1 \in LowerBounds(v)
                   /\ errors[i].r2 \in UpperBounds(v)
                   /\ ~is_subregion_of(errors[i].r1, errors[i].r2)

\* C22 (as stated): a variable whose only constraints are concrete upper
\* bounds, two of them without a glb, gets exactly one error, a
\* SupSupConflict naming two of its upper bounds whose glb fails, and
\* resolves to Static.
C22_SupSupForDisjointUppers ==
  values.full
    => \A v \in 0..(Len(values.v) - 1) :
         (/\ OnlyConcreteBounds(v)
          /\ LowerBounds(v) = {}
          /\ \E a \in UpperBounds(v), b \in UpperBounds(v) :
               ~glb_concrete_regions(a, b).ok)
           => /\ Cardinality(ErrorsFor(v)) = 1
              /\ \A i \in ErrorsFor(v) :
                   /\ errors[i].kind = "SupSupConflict"
                   /\ {errors[i].r1, errors[i].r2} \subseteq UpperBounds(v)
                   /\ ~glb_concrete_regions(errors[i].r1, errors[i].r2).ok
              /\ resolve_var_value(values.v[v + 1]) = re_static
              /\ (ret.op = "resolve_var" /\ ret.bug = "none" /\ ret.n = v)
                   => ret.r = re_static

Unconstrained(v) ==
  \A c \in DOMAIN constraints : v \notin RegionVars(c.sub) \cup RegionVars(c.sup)

\* C23: a variable that occurs in no constraint ends solving with NoValue,
\* resolve_var answers Empty for it and no error record names it, whatever
\* the other variable and its constraints are.
C23_UnconstrainedIsEmpty ==
  values.full
    => \A v \in 0..(Len(values.v) - 1) :
         Unconstrained(v)
           => /\ values.v[v + 1] = NoValue
              /\ ErrorsFor(v) = {}
              /\ (ret.op = "resolve_var" /\ ret.bug = "none" /\ ret.n = v)
                   => ret.r = re_empty

\* C23 witness: resolve_var has answered Empty for the variable without
\* constraints while the other variable ended in error.
C23_Witness ==
  /\ values.full
  /\ Len(values.v) = 2
  /\ Unconstrained(1)
  /\ values.v[1] = ErrorValue
  /\ errors # <<>>
  /\ ret.op = "resolve_var"
  /\ ret.n = 1
  /\ ret.r = re_empty

\* The constraints a <= $c and $c <= a.
BelowVar(a, c) ==
  IF IsVar(a) THEN ConstrainVarSubVar(a.id, c) ELSE ConstrainRegSubVar(a, c)
AboveVar(a, c) ==
  IF IsVar(a) THEN ConstrainVarSubVar(c, a.id) ELSE ConstrainVarSubReg(c, a)

\* C24: on a memo miss with neither argument Static, lub_regions creates
\* exactly one variable c, records (a, b) -> c in the lub memo, adds
\* exactly the constraints a <= c and b <= c and returns Var(c);
\* glb_regions does so with the glb memo and c <= a, c <= b.  With a
\* Static argument lub_regions returns Static and glb_regions the other
\* argument, and variables, constraints, memos and log stay as they were.
C24_CombineMiss ==
  [][\A k \in CombineOps, p \in ResolvedCombinePairs, origin \in SubregionOrigins :
       (/\ ret'.op = k[2]
        /\ ~values.full
        /\ Exists(p)
        /\ TwoRegions(p[1], p[2]) \notin DOMAIN combine_map(Store, k[1])
        /\ CombineRegions({}, k[1], k[2], origin, p[1], p[2]))
       => LET c == num_vars(Store)
              lub == k[1] = "Lub"
          IN IF re_static \in {p[1], p[2]}
             THEN /\ ret'.r = (IF lub THEN re_static
                               ELSE IF p[1] = re_static THEN p[2] ELSE p[1])
                  /\ StoreNext = Store
             ELSE /\ ret'.r = ReVar(c)
                  /\ Len(var_origins') = c + 1
                  /\ combine_map(StoreNext, k[1])
                       = MapPut(combine_map(Store, k[1]), TwoRegions(p[1], p[2]), c)
                  /\ combine_map(StoreNext, IF lub THEN "Glb" ELSE "Lub")
                       = combine_map(Store, IF lub THEN "Glb" ELSE "Lub")
                  /\ DOMAIN constraints'
                       = DOMAIN constraints
                           \cup (IF lub
                                 THEN {BelowVar(p[1], c), BelowVar(p[2], c)}
                                 ELSE {AboveVar(p[1], c), AboveVar(p[2], c)})]_vars

\* C24 witness: inside a snapshot, glb_regions($0, Scope 2) has created $1
\* below both.
C24_Witness ==
  /\ ret.op = "glb_regions"
  /\ ret.r = ReVar(1)
  /\ in_snapshot(Store)
  /\ TwoRegions(ReVar(0), re_scope(2)) \in DOMAIN glbs
  /\ {ConstrainVarSubVar(1, 0), ConstrainVarSubReg(1, re_scope(2))}
       \subseteq DOMAIN constraints

\* C27: once resolve_regions has returned, no operation changes the stored
\* values (snapshots, rollbacks, commits, new variables, a failed
\* lub_regions or glb_regions, a second resolve_regions), and every
\* resolve_var(v) answers from them, so the answer for v is the same on
\* every later call.
C27_ValuesImmutable ==
  [][values.full
       => /\ values' = values
          /\ (ret'.op = "resolve_var" /\ ret'.bug = "none")
               => ret'.r = resolve_var_value(values.v[ret'.n + 1])]_vars

\* C27 witness: after solving two variables, a rollback has removed $1 and
\* resolve_var($0) has answered.
C27_Witness ==
  /\ values.full
  /\ Len(values.v) = 2
  /\ Len(var_origins) = 1
  /\ ret.op = "resolve_var"
  /\ ret.bug = "none"
  /\ ret.n = 0

\* C25: once resolve_regions has returned, its error list holds exactly one
\* ConcreteFailure(origin, sub, sup) for every stored constraint between two
\* concrete regions whose sub is not a subregion of sup, with the origin the
\* constraint was stored with, and no ConcreteFailure for any other
\* constraint or pair.
FailingConcrete ==
  {c \in DOMAIN constraints : c.kind = "RegSubReg" /\ ~is_subregion_of(c.sub, c.sup)}
ConcreteFailuresAt ==
  {i \in 1..Len(errors) : errors[i].kind = "ConcreteFailure"}
C25_ConcreteFailurePerFailingPair ==
  values.full =>
    /\ \A c \in FailingConcrete :
         Cardinality({i \in ConcreteFailuresAt :
                        errors[i] = ConcreteFailure(constraints[c], c.sub, c.sup)}) = 1
    /\ \A i \in ConcreteFailuresAt :
         \E c \in FailingConcrete :
           errors[i] = ConcreteFailure(constraints[c], c.sub, c.sup)
    /\ Cardinality(ConcreteFailuresAt) = Cardinality(FailingConcrete)
C25_Witness ==
  /\ values.full
  /\ FailingConcrete # {}
  /\ \E c \in DOMAIN constraints :
       c.kind = "RegSubReg" /\ is_subregion_of(c.sub, c.sup)
  /\ \E c \in DOMAIN constraints : c.kind = "RegSubVar"
  /\ Len(errors) = 1

\* C26: new_skolemized returns the index held by the skolemization counter
\* and moves the counter one up, new_bound does the same with the bound
\* counter, and no other operation (start_snapshot, commit, rollback_to
\* among them) changes either counter: the indices handed out are 0, 1,
\* 2, ... in order, and none is handed out twice, rolled back or not.
C26_FreshNamesStayFresh ==
  [][/\ IF ret'.op = "new_skolemized"
        THEN /\ ret'.r = ReSkolemized(skolemization_count, br_anon(0))
             /\ skolemization_count' = skolemization_count + 1
        ELSE skolemization_count' = skolemization_count
     /\ IF ret'.op = "new_bound"
        THEN /\ ret'.r = re_bound(br_fresh(bound_count))
             /\ bound_count' = bound_count + 1
        ELSE bound_count' = bound_count]_vars
C26_Witness ==
  /\ ret.op = "rollback_to"
  /\ ret.bug = "none"
  /\ ret.n >= 2
  /\ skolemization_count = 2
  /\ bound_count = 2

\* The constraints logged at undo-log index >= snapshot, as unordered edges.
LoggedSince(snapshot) ==
  {undo_log[i].c : i \in {j \in (snapshot + 1)..Len(undo_log) :
                            undo_log[j].kind = "AddConstraint"}}
\* The regions joined to those of S by a path of such edges.
RECURSIVE ConnectedTo(_, _)
ConnectedTo(S, edges) ==
  LET more == S \cup {c.sup : c \in {e \in edges : e.sub \in S}}
                \cup {c.sub : c \in {e \in edges : e.sup \in S}}
  IN IF more = S THEN S ELSE ConnectedTo(more, edges)

\* C28: tainted(s, r0) returns r0 first and no region twice, and its
\* regions are exactly those joined to r0 by a path in the undirected graph
\* of the constraints logged at undo-log index >= s; so y is in
\* tainted(s, x) exactly when x is in tainted(s, y), and a constraint
\* logged below s, or not logged, adds nothing.
C28_TaintedIsComponent ==
  ret.op = "tainted" =>
    LET T == {ret.rs[i] : i \in 1..Len(ret.rs)}
        edges == LoggedSince(ret.n)
        ends == {c.sub : c \in DOMAIN constraints} \cup {c.sup : c \in DOMAIN constraints}
    IN /\ Len(ret.rs) >= 1 /\ ret.rs[1] = ret.r
       /\ Cardinality(T) = Len(ret.rs)
       /\ T = ConnectedTo({ret.r}, edges)
       /\ \A y \in ends \cup T :
            y \in T <=> InSeq(tainted(Store, ret.n, y), ret.r)
C28_Witness ==
  /\ ret.op = "tainted" /\ ret.n >= 2 /\ Len(ret.rs) = 2
  /\ \E i \in 1..ret.n :
       /\ undo_log[i].kind = "AddConstraint"
       /\ InSeq(ret.rs, undo_log[i].c.sup)
       /\ ~InSeq(ret.rs, undo_log[i].c.sub)

\* The variables that are the target of a region-to-variable constraint, and
\* those reached from the variables of S along variable-to-variable
\* constraints.
LowerBounded ==
  {c.sup.id : c \in {d \in DOMAIN constraints : d.kind = "RegSubVar"}}
RECURSIVE ReachedFrom(_)
ReachedFrom(S) ==
  LET more == S \cup {c.sup.id : c \in {d \in DOMAIN constraints :
                                          d.kind = "VarSubVar" /\ d.sub.id \in S}}
  IN IF more = S THEN S ELSE ReachedFrom(more)
ClassifiedExpanding(graph) ==
  {i \in 0..(Len(graph.nodes) - 1) : graph.nodes[i + 1].classification = "Expanding"}

\* C29: for every constraint set and scan order, when the expansion loop
\* has reached its fixed point the Expanding nodes are exactly the targets of
\* the region-to-variable constraints and the variables reached from them
\* along variable-to-variable constraints, every other node is Contracting,
\* and the contraction loop leaves every classification as it found it.
C29_ClassificationByLowerBounds ==
  \A order \in Perms(DOMAIN constraints) :
    LET classified(e, c) ==
          (~e.bug /\ ~e.stuck)
            => /\ ClassifiedExpanding(e.graph) = ReachedFrom(LowerBounded)
               /\ \A i \in 1..Len(e.graph.nodes) :
                    e.graph.nodes[i].classification \in {"Expanding", "Contracting"}
               /\ (~c.bug /\ ~c.stuck)
                    => ClassifiedExpanding(c.graph) = ClassifiedExpanding(e.graph)
        contracted(e) ==
          classified(e, iterate_until_fixed_point("Contraction", e.graph, 1))
    IN contracted(iterate_until_fixed_point("Expansion", construct_graph(Store, order), 1))
\* C29 witness: resolve_regions has returned for s2 <= $1 <= $0 <= s3, where
\* $0 is Expanding through $1 and fails its upper bound.
C29_Witness ==
  /\ values.full
  /\ ret.op = "resolve_regions"
  /\ DOMAIN constraints = {ConstrainRegSubVar(re_scope(2), 1), ConstrainVarSubVar(1, 0),
                           ConstrainVarSubReg(0, re_scope(3))}
  /\ values.v[1] = ErrorValue

\* The regions of the region-to-variable constraints whose target reaches
\* v along variable-to-variable constraints, and lub_concrete_regions
\* folded over a sequence of regions.
LowerSources(v) ==
  {c.sub : c \in {d \in DOMAIN constraints :
                    d.kind = "RegSubVar" /\ v \in ReachedFrom({d.sup.id})}}
RECURSIVE FoldLub(_)
FoldLub(rs) ==
  IF Len(rs) = 1 THEN rs[1]
  ELSE lub_concrete_regions(FoldLub(SubSeq(rs, 1, Len(rs) - 1)), rs[Len(rs)])

\* C30 (as stated): for every scan order, at the fixed point of the
\* expansion loop every Expanding node holds the lub of its lower sources,
\* lub_concrete_regions folded over them in whatever order, and no node is
\* ErrorValue.  The fold depends on the order when a scope meets two
\* related free regions, and so does the value expansion ends with.
C30_ExpansionIsLeast ==
  \A order \in Perms(DOMAIN constraints) :
    LET least(e) ==
          (~e.bug /\ ~e.stuck)
            => \A i \in 1..Len(e.graph.nodes) :
                 /\ e.graph.nodes[i].value # ErrorValue
                 /\ e.graph.nodes[i].classification = "Expanding"
                      => \A rs \in Perms(LowerSources(i - 1)) :
                           e.graph.nodes[i].value = Value(FoldLub(rs))
    IN least(iterate_until_fixed_point("Expansion", construct_graph(Store, order), 1))

\* A node of the given classification and value.
NodeWith(classification, value) ==
  [GraphNode(<<"RegionVariable", "v">>) EXCEPT !.classification = classification,
                                             !.value = value]

\* C31: contract_node on an Expanding node that holds Value(r) leaves the
\* value or makes it ErrorValue and reports no change, and on an ErrorValue
\* node of either classification it does nothing; so, for every constraint
\* set and scan order, an Expanding node leaves the contraction loop with
\* the value expansion gave it or with ErrorValue, and resolve_regions
\* stores ErrorValue for every node that contraction left in error.
C31_ExpandingFrozenInContraction ==
  /\ \A a \in ConcreteRegions, b \in ConcreteRegions :
       LET frozen(s) ==
             /\ ~s.changed /\ ~s.bug
             /\ s.node.value \in {Value(a), ErrorValue}
             /\ s.node.classification = "Expanding"
       IN frozen(contract_node(NodeWith("Expanding", Value(a)), b))
  /\ \A cl \in {"Expanding", "Contracting"}, b \in ConcreteRegions :
       contract_node(NodeWith(cl, ErrorValue), b)
         = NodeStep(NodeWith(cl, ErrorValue), FALSE, FALSE)
  /\ \A order \in Perms(DOMAIN constraints) :
       LET kept(e, c) ==
             (~e.bug /\ ~e.stuck /\ ~c.bug /\ ~c.stuck)
               => \A i \in 1..Len(e.graph.nodes) :
                    /\ e.graph.nodes[i].classification = "Expanding"
                         => c.graph.nodes[i].value \in {e.graph.nodes[i].value, ErrorValue}
                    /\ (values.full /\ c.graph.nodes[i].value = ErrorValue)
                         => values.v[i] = ErrorValue
           contracted(e) ==
             kept(e, iterate_until_fixed_point("Contraction", e.graph, 1))
       IN contracted(iterate_until_fixed_point("Expansion", construct_graph(Store, order), 1))
\* C31 witness: resolve_regions has returned for FreeB <= $1 <= $0 <= Scope 3:
\* $0 took FreeB in expansion and failed its check, $1 kept FreeB.
C31_Witness ==
  /\ values.full
  /\ ret.op = "resolve_regions"
  /\ {ConstrainRegSubVar(FreeB, 1), ConstrainVarSubVar(1, 0),
      ConstrainVarSubReg(0, re_scope(3))} \subseteq DOMAIN constraints
  /\ values.v = <<ErrorValue, Value(FreeB)>>

\* C32: expand_node never leaves the node it classifies without a value,
\* and for every constraint set and scan order no node is Expanding with
\* NoValue after the expansion loop or after the contraction loop, and the
\* contraction loop does not end on the failed assertion of contract_node.
C32_NoValueIsContracting ==
  /\ \A a \in ConcreteRegions, cl \in {"Expanding", "Contracting"},
        v \in {NoValue, ErrorValue} \cup {Value(r) : r \in ConcreteRegions} :
       expand_node(a, NodeWith(cl, v)).node.value = NoValue
         => expand_node(a, NodeWith(cl, v)).node.classification = "Contracting"
  /\ \A order \in Perms(DOMAIN constraints) :
       LET valued(g) ==
             \A i \in 1..Len(g.nodes) :
               g.nodes[i].value = NoValue => g.nodes[i].classification = "Contracting"
           checked(e, c) ==
             (~e.bug /\ ~e.stuck) => (valued(e.graph) /\ ~c.bug /\ valued(c.graph))
           contracted(e) ==
             checked(e, iterate_until_fixed_point("Contraction", e.graph, 1))
       IN contracted(iterate_until_fixed_point("Expansion", construct_graph(Store, order), 1))
\* C32 witness: resolve_regions has returned where $1 had only an upper
\* bound and took it as its first value, next to an Expanding $0 with an
\* upper bound of its own.
C32_Witness ==
  /\ values.full
  /\ ret.op = "resolve_regions"
  /\ DOMAIN constraints = {ConstrainRegSubVar(re_scope(3), 0),
                           ConstrainVarSubReg(0, re_scope(1)),
                           ConstrainVarSubReg(1, FreeA)}
  /\ values.v = <<Value(re_scope(3)), Value(FreeA)>>

\* The classification of the error node whose collect_error_for_... walk
\* ends without a conflicting pair (the "could not find error" bug), for the
\* error nodes from idx on; "none" when every walk returns.
RECURSIVE CouldNotFindErrorAt(_, _, _)
CouldNotFindErrorAt(graph, dup_vec, idx) ==
  IF idx >= Len(graph.nodes) THEN "none"
  ELSE LET after(one) ==
             IF one.bug THEN graph.nodes[idx + 1].classification
             ELSE CouldNotFindErrorAt(graph, one.dup_vec, idx + 1)
       IN IF graph.nodes[idx + 1].value.tag # "ErrorValue"
          THEN CouldNotFindErrorAt(graph, dup_vec, idx + 1)
          ELSE IF graph.nodes[idx + 1].classification = "Expanding"
          THEN after(collect_error_for_expanding_node(Store, graph, dup_vec, idx))
          ELSE after(collect_error_for_contracting_node(Store, graph, dup_vec, idx))
CouldNotFindError(order) ==
  LET from(graph) ==
        CouldNotFindErrorAt(graph, [i \in 1..Len(graph.nodes) |-> uint_max_value], 0)
  IN from(SolvedGraph(order))

\* C33 (as stated): for every constraint set and scan order, no Expanding
\* node that ended in ErrorValue has its collect_error_for_expanding_node
\* walks return without a duplicate and without a pair (lb, ub) with lb not
\* a subregion of ub: the "could not find error" bug is never reached.
C33_ExpandingConflictHasPair ==
  \A order \in Perms(DOMAIN constraints) : CouldNotFindError(order) # "Expanding"

\* C33 witness: resolve_regions has returned for FreeB <= $0, Scope 3 <= $0,
\* $0 <= FreeA, where each lower bound is below FreeA and their lub, Static,
\* is not; one SubSupConflict was returned for $0.
C33_Witness ==
  /\ values.full
  /\ ret.op = "resolve_regions"
  /\ DOMAIN constraints = {ConstrainRegSubVar(FreeB, 0), ConstrainRegSubVar(re_scope(3), 0),
                           ConstrainVarSubReg(0, FreeA)}
  /\ values.v[1] = ErrorValue
  /\ Len(errors) = 1
  /\ errors[1].kind = "SubSupConflict"

\* C34: for every constraint set and scan order, no Contracting node that
\* ended in ErrorValue has its upper-bound walk return without a duplicate
\* and without a pair of upper bounds whose glb_concrete_regions fails: the
\* "could not find error" bug is never reached.
C34_ContractingConflictHasPair ==
  \A order \in Perms(DOMAIN constraints) : CouldNotFindError(order) # "Contracting"

\* Whether a lub_concrete_regions call had a skolemized or a bound region
\* among its two arguments.
LubOfSkolemOrBound ==
  /\ ret.op = "lub_concrete_regions"
  /\ \E i \in 1..2 : ret.rs[i].tag \in {"ReSkolemized", "re_bound"}

\* C35 (as stated): lub_concrete_regions(a, b) with a skolemized or bound
\* region among a, b is a when a = b and Static when a # b.  The Empty arm
\* comes first, so with Empty as the other argument the answer is the
\* skolemized or bound region itself.
C35_SkolemBoundLubIsStatic ==
  LubOfSkolemOrBound
    => ret.r = IF ret.rs[1] = ret.rs[2] THEN ret.rs[1] ELSE re_static

\* C35: lub_concrete_regions(a, b) with a skolemized or bound region among
\* a, b is a when a = b, the other argument when one is Empty, and Static
\* in every other case.
C35_SkolemBoundLub ==
  LubOfSkolemOrBound
    => ret.r = IF ret.rs[1] = ret.rs[2] THEN ret.rs[1]
               ELSE IF ret.rs[1] = re_empty THEN ret.rs[2]
               ELSE IF ret.rs[2] = re_empty THEN ret.rs[1]
               ELSE re_static
\* C35 witness: the lub of a skolemized region and Empty is the skolemized
\* region.
C35_Witness ==
  /\ ret.op = "lub_concrete_regions"
  /\ ret.rs[1].tag = "ReSkolemized"
  /\ ret.rs[2] = re_empty
  /\ ret.r = ret.rs[1]

\* The variables named by the AddVar entries of the undo log, in log order.
LoggedVars == vars_created_since_snapshot(Store, 0)

\* C36: in every state the AddVar entries of the undo log, read in order,
\* name the last variables of the list in increasing order with none left
\* out, and no rollback_to, whatever its token, fails the assertion that
\* the variable it undoes is the last one.
C36_RollbackAssertionHolds ==
  /\ LoggedVars = [i \in 1..Len(LoggedVars) |-> num_vars(Store) - Len(LoggedVars) + i - 1]
  /\ Len(LoggedVars) <= num_vars(Store)
  /\ ret.op = "rollback_to" => ret.bug = "none"
\* C36 witness: a rollback_to has undone a variable created inside a
\* snapshot and kept the one created before it.
C36_Witness ==
  /\ ret.op = "rollback_to"
  /\ ret.bug = "none"
  /\ ret.n = 2
  /\ Len(var_origins) = 1
  /\ undo_log = <<>>

\* C37 (as stated): a make_subregion call whose constraint is already
\* stored changes neither the constraints, nor the origin stored for any of
\* them, nor the undo log.  The map insert puts the new origin in place of
\* the stored one.
C37_DuplicateInsertIsNoOp ==
  [][(/\ ret'.op = "make_subregion"
      /\ ret'.bug = "none"
      /\ DOMAIN constraints' = DOMAIN constraints)
       => (constraints' = constraints /\ undo_log' = undo_log)]_vars

\* The store of the state after the step.
StoreAfter ==
  [Store EXCEPT !.var_origins = var_origins', !.constraints = constraints',
                !.lubs = lubs', !.glbs = glbs', !.undo_log = undo_log']

\* C38: a make_subregion call that returns with the same constraints stored
\* as before (its constraint was already there) leaves the undo log as it
\* was; so tainted answers as before the call for every token and seed, and
\* a rollback_to to any open snapshot still keeps every constraint that was
\* stored when that snapshot was taken.
C38_DuplicateLeavesNoTrace ==
  [][(/\ ret'.op = "make_subregion"
      /\ ret'.bug = "none"
      /\ DOMAIN constraints' = DOMAIN constraints)
       => /\ undo_log' = undo_log
          /\ \A i \in 1..Len(snaps) :
               /\ \A r0 \in TaintSeeds :
                    tainted(StoreAfter, snaps[i].token, r0)
                      = tainted(Store, snaps[i].token, r0)
               /\ snaps[i].constraints
                    \subseteq DOMAIN rollback_to(StoreAfter, snaps[i].token).st.constraints]_vars
\* C38 witness: make_subregion has returned inside an open snapshot whose
\* log holds no constraint entry, so its constraint was stored before the
\* snapshot was taken.
C38_Witness ==
  /\ ret.op = "make_subregion"
  /\ ret.bug = "none"
  /\ Len(snaps) >= 1
  /\ undo_log # <<>>
  /\ \A i \in 1..Len(undo_log) : undo_log[i].kind # "AddConstraint"
  /\ ConstrainRegSubVar(re_scope(2), 0) \in DOMAIN constraints


\* The variables numbered from first up to the last one of the store, in
\* increasing order.
VarsFrom(st, first) ==
  [k \in 1..(num_vars(st) - first) |-> first + k - 1]

\* C39: for every open snapshot (no commit and no rollback_to with a token
\* at most its own since its start_snapshot), vars_created_since_snapshot
\* with its token lists exactly the variables that exist now and did not
\* when it was taken, each once, in creation order; and the list a call
\* returns is that list.
C39_CreatedSinceOpenSnapshot ==
  /\ \A i \in 1..Len(snaps) :
       vars_created_since_snapshot(Store, snaps[i].token) = VarsFrom(Store, snaps[i].nvars)
  /\ (ret.op = "vars_created_since_snapshot"
        /\ \E i \in 1..Len(snaps) : snaps[i].token = ret.n)
       => \A i \in 1..Len(snaps) :
            snaps[i].token = ret.n => ret.rs = VarsFrom(Store, snaps[i].nvars)
\* C39 witness: inside a nested snapshot taken when one variable existed,
\* lub_regions has created a second one and the call with the nested token
\* has returned just that one.
C39_Witness ==
  /\ ret.op = "vars_created_since_snapshot"
  /\ Len(snaps) = 2
  /\ ret.n = snaps[2].token
  /\ snaps[2].token > 0
  /\ snaps[2].nvars = 1
  /\ DOMAIN lubs # {}
  /\ ret.rs = <<1>>
\* C39, as stated: a token stays good until a commit. After start_snapshot
\* has returned 0 and rollback_to(0) has emptied the log, a variable created
\* next is on the list for token 0.
C39_CreatedSinceAnyUncommittedToken ==
  [][(/\ ret.op = "rollback_to"
      /\ ret.bug = "none"
      /\ ret.m >= 1
      /\ undo_log = <<>>
      /\ ret'.op = "new_region_var"
      /\ ret'.bug = "none")
       => vars_created_since_snapshot(StoreAfter, 0) = <<num_vars(Store)>>]_vars


\* The constraints of the edges each_edge visits from node n in direction dir.
VisitedConstraints(graph, n, dir) ==
  LET visited == each_edge(graph, n, dir)
  IN [i \in 1..Len(visited) |-> visited[i].constraint]

NoRepeat(s) == \A i, j \in 1..Len(s) : i # j => s[i] # s[j]

Range(s) == {s[i] : i \in 1..Len(s)}

\* C40: in whatever order the constraint map hands out its keys, the graph
\* construct_graph builds has one edge per stored constraint; from every
\* node, each_edge in direction Outgoing visits, once each and then ending
\* at the sentinel, exactly the VarSubVar and VarSubReg edges whose sub is
\* that node, and in direction Incoming exactly the VarSubVar and RegSubVar
\* edges whose sup is that node; RegSubReg edges keep both links at the
\* sentinel and are on no list; VarSubVar(n, n) is on both lists of n.
C40_EdgeListsPartitionConstraints ==
  \A order \in Perms(DOMAIN constraints) :
    LET graph == construct_graph(Store, order)
        lists_right(g) ==
          /\ Len(g.edges) = Cardinality(DOMAIN constraints)
          /\ {g.edges[i].constraint : i \in 1..Len(g.edges)} = DOMAIN constraints
          /\ Len(g.nodes) = num_vars(Store)
          /\ \A n \in 0..(num_vars(Store) - 1) :
               LET out == VisitedConstraints(g, n, Outgoing)
                   inc == VisitedConstraints(g, n, Incoming)
               IN /\ NoRepeat(out)
                  /\ NoRepeat(inc)
                  /\ Range(out) = {c \in DOMAIN constraints :
                                     /\ c.kind \in {"VarSubVar", "VarSubReg"}
                                     /\ c.sub = ReVar(n)}
                  /\ Range(inc) = {c \in DOMAIN constraints :
                                     /\ c.kind \in {"VarSubVar", "RegSubVar"}
                                     /\ c.sup = ReVar(n)}
          /\ \A i \in 1..Len(g.edges) :
               g.edges[i].constraint.kind = "RegSubReg"
                 => g.edges[i].next_edge = <<uint_max_value, uint_max_value>>
    IN lists_right(graph)
\* C40 witness: resolve_regions has built the graph of a store that holds
\* VarSubVar(0, 0), a second edge into node 0, a second edge out of node 0
\* and a RegSubReg constraint.
C40_Witness ==
  /\ ret.op = "resolve_regions"
  /\ ret.bug = "none"
  /\ ConstrainVarSubVar(0, 0) \in DOMAIN constraints
  /\ ConstrainRegSubVar(re_scope(2), 0) \in DOMAIN constraints
  /\ ConstrainVarSubReg(0, re_scope(1)) \in DOMAIN constraints
  /\ ConstrainRegSubReg(re_scope(2), re_scope(1)) \in DOMAIN constraints

====
